---------------------------- MODULE Spec2Model ----------------------------
(***************************************************************************)
(* Model of gcosmos' consensus strategy (gserver/internal/gsi):            *)
(* EnterRound, ConsiderProposedBlocks, ChooseProposedBlock and             *)
(* DecidePrecommit, together with the collaborators they call: the         *)
(* block-data identifier codec, the request cache, the proposed block     *)
(* data retriever, the app manager's simulation entry points and the      *)
(* local clock.                                                           *)
(***************************************************************************)
EXTENDS Integers, Sequences, FiniteSets, TLC

(***************************************************************************)
(* Bounds of the model.                                                    *)
(***************************************************************************)
\* Heights the engine enters are 1..MaxHeight.
MaxHeight == 2
\* Rounds the engine enters are 0..MaxRound.
MaxRound == 1
\* The clock runs over ticks 0..MaxNow.
MaxNow == 2
\* Clock ticks per second: RFC3339 text as EnterRound writes it keeps whole seconds.
TicksPerSecond == 2
\* Longest list of proposed headers handed to the consideration hook.
MaxPhs == 2
\* Longest list of headers handed to ChooseProposedBlock.
MaxChoosePhs == 1
\* Largest available power of a vote summary.
MaxPower == 100

(***************************************************************************)
(* Text helpers: text is a sequence of one-character strings.              *)
(***************************************************************************)
DigitChars == <<"0", "1", "2", "3", "4", "5", "6", "7", "8", "9">>

HexChars == {"0", "1", "2", "3", "4", "5", "6", "7", "8", "9", "a", "b", "c", "d", "e", "f"}

DigitVal(c) == (CHOOSE i \in 1..10 : DigitChars[i] = c) - 1

IsDigit(c) == \E i \in 1..10 : DigitChars[i] = c

\* fmt's %d verb for an unsigned number.
RECURSIVE Dec(_)
Dec(n) ==
    IF n < 10 THEN <<DigitChars[n + 1]>>
    ELSE Dec(n \div 10) \o <<DigitChars[(n % 10) + 1]>>

RECURSIVE DigitsValue(_)
DigitsValue(s) ==
    IF Len(s) = 0 THEN 0
    ELSE 10 * DigitsValue(SubSeq(s, 1, Len(s) - 1)) + DigitVal(s[Len(s)])

\* strconv.ParseUint(s, 10, _): the empty text and any non-digit are errors.
ParseUint(s) ==
    IF Len(s) > 0 /\ \A i \in 1..Len(s) : IsDigit(s[i])
    THEN [ok |-> TRUE, val |-> DigitsValue(s)]
    ELSE [ok |-> FALSE, val |-> 0]

\* strings.Split(s, ":")
RECURSIVE SplitColon(_)
SplitColon(s) ==
    IF \A i \in 1..Len(s) : s[i] # ":" THEN <<s>>
    ELSE LET k == CHOOSE i \in 1..Len(s) : s[i] = ":" /\ \A j \in 1..(i - 1) : s[j] # ":"
         IN  <<SubSeq(s, 1, k - 1)>> \o SplitColon(SubSeq(s, k + 1, Len(s)))

(***************************************************************************)
(* Transactions and the application state machine.                         *)
(* A state of the application is the set of transactions applied to it.   *)
(* "a" always applies, "b" applies only on a state that holds "a", and    *)
(* "x" never applies.                                                      *)
(***************************************************************************)
Txs == {"a", "b", "x"}

\* The latest committed state.
CommittedState == {}

\* TxResult.Error of running tx on state st: TRUE when the transaction is rejected.
TxResultError(st, tx) ==
    CASE tx = "a" -> FALSE
      [] tx = "b" -> ~("a" \in st)
      [] OTHER -> TRUE

\* appmanager.SimulateWithState(ctx, state, tx): errTx is the transaction, if any,
\* whose simulation cannot read state in this invocation.
SimulateWithState(st, tx, errTx) ==
    [err |-> (tx = errTx), resError |-> TxResultError(st, tx), state |-> st \cup {tx}]

\* appmanager.Simulate(ctx, tx): simulation against the latest committed state.
Simulate(tx, errTx) == SimulateWithState(CommittedState, tx, errTx)

(***************************************************************************)
(* Block-data identifier codec (package gsbd).                             *)
(***************************************************************************)
TxCode(tx) == CASE tx = "a" -> "a" [] tx = "b" -> "b" [] OTHER -> "c"

\* Longest transaction batch of the model.
MaxBatch == 3

\* Hex text of the content hash of a batch: injective on the model's batches.
HashHex(txs) ==
    <<DigitChars[Len(txs) + 1]>> \o
    [i \in 1..MaxBatch |-> IF i <= Len(txs) THEN TxCode(txs[i]) ELSE "0"]

\* The hash of no input.
zeroHash == HashHex(<<>>)

\* The suffix of the data ID for nTxs=0, data_len=0 and the zero hash.
zeroHashSuffix == <<":", "0", ":", "0", ":">> \o zeroHash

\* encode(height, round, nTxs, dataLen, hash)
EncodeDataID(h, r, n, d, x) ==
    Dec(h) \o <<":">> \o Dec(r) \o <<":">> \o Dec(n) \o <<":">> \o Dec(d) \o <<":">> \o x

RECURSIVE EncodeTxs(_)

\* The encoded bytes of a batch: each transaction's code and a terminator.
EncodeTxs(txs) ==
    IF txs = <<>> THEN <<>> ELSE <<TxCode(Head(txs)), ";">> \o EncodeTxs(Tail(txs))

\* Encoded size of a batch.
EncodedLen(txs) == 2 * Len(txs)

\* gsbd.DataID(height, round, dataLen, txs)
DataID(h, r, txs) ==
    IF Len(txs) = 0 THEN Dec(h) \o <<":">> \o Dec(r) \o zeroHashSuffix
    ELSE EncodeDataID(h, r, Len(txs), EncodedLen(txs), HashHex(txs))

\* What ParseDataID returns with an error.
BadDataID == [ok |-> FALSE, h |-> 0, r |-> 0, nTxs |-> 0, dataLen |-> 0, hash |-> <<>>]

\* The transaction count and the data length are taken from each other's place.
ParseFieldsSwapsCounts(ph, pr, pn, pd, x) ==
    IF ph.ok /\ pr.ok /\ pn.ok /\ pd.ok
       /\ Len(x) = Len(zeroHash)
       /\ \A i \in 1..Len(x) : x[i] \in HexChars
    THEN [ok |-> TRUE, h |-> ph.val, r |-> pr.val, nTxs |-> pd.val,
          dataLen |-> pn.val, hash |-> x]
    ELSE BadDataID

\* The fields of a data ID, once each number is parsed: the hash must be hex text
\* of the length of a hash.
ParseFields(ph, pr, pn, pd, x) ==
    IF ph.ok /\ pr.ok /\ pn.ok /\ pd.ok
       /\ Len(x) = Len(zeroHash)
       /\ \A i \in 1..Len(x) : x[i] \in HexChars
    THEN [ok |-> TRUE, h |-> ph.val, r |-> pr.val, nTxs |-> pn.val,
          dataLen |-> pd.val, hash |-> x]
    ELSE BadDataID

\* A data ID has five colon-separated parts.
ParseParts(parts) ==
    IF Len(parts) # 5 THEN BadDataID
    ELSE ParseFields(ParseUint(parts[1]), ParseUint(parts[2]), ParseUint(parts[3]),
                     ParseUint(parts[4]), parts[5])

\* gsbd.ParseDataID(id) -> (height, round, nTxs, dataLen, hash, err)
ParseDataID(id) == ParseParts(SplitColon(id))

(***************************************************************************)
(* Annotations.                                                            *)
(***************************************************************************)
\* time.Time.Format(time.RFC3339) of the clock reading t, in UTC: whole seconds.
FormatRFC3339(t) == Dec(t \div TicksPerSecond) \o <<"Z">>

\* The time of a parsed count of seconds.
SecondsToTime(u) ==
    IF u.ok THEN [ok |-> TRUE, t |-> u.val * TicksPerSecond] ELSE [ok |-> FALSE, t |-> 0]

\* time.Parse(time.RFC3339, s)
ParseRFC3339(s) ==
    IF Len(s) >= 2 /\ s[Len(s)] = "Z" THEN SecondsToTime(ParseUint(SubSeq(s, 1, Len(s) - 1)))
    ELSE [ok |-> FALSE, t |-> 0]

\* json.Marshal(BlockAnnotation{TimeS: timeS})
MarshalBlockAnnotation(timeS) == <<"{">> \o timeS \o <<"}">>

\* json.Unmarshal(driver, &ba)
UnmarshalBlockAnnotation(b) ==
    IF Len(b) >= 2 /\ b[1] = "{" /\ b[Len(b)] = "}"
    THEN [ok |-> TRUE, TimeS |-> SubSeq(b, 2, Len(b) - 1)]
    ELSE [ok |-> FALSE, TimeS |-> <<>>]

\* BlockAnnotation.Time
BlockAnnotationTime(ba) == ParseRFC3339(ba.TimeS)

\* json.Marshal(ProposalDriverAnnotation{Locations: addrs})
MarshalProposalDriverAnnotation(addrs) == <<"{">> \o addrs \o <<"}">>

(***************************************************************************)
(* Validators and proposer selection.                                      *)
(***************************************************************************)
NilKey == "nil"

ValSet == <<[PubKey |-> "A", Power |-> 60], [PubKey |-> "B", Power |-> 40]>>

\* gcrypto.PubKey.Equal
PubKeyEqual(a, b) == a # NilKey /\ b # NilKey /\ a = b

\* Machine integers, scaled down: a height is an unsigned number of IntBits bits, a
\* round one of RoundBits bits, and int is the signed type of IntBits bits. The
\* heights and rounds of the round views EnterRound is given in the runs below stay
\* under 2^(IntBits - 1), where the conversions change nothing.
IntBits == 5

RoundBits == 2

\* int(u): the conversion of an unsigned value to the signed type keeps the bits.
ToInt(u) ==
    IF u % (2 ^ IntBits) >= 2 ^ (IntBits - 1)
    THEN (u % (2 ^ IntBits)) - (2 ^ IntBits)
    ELSE u % (2 ^ IntBits)

\* a + b on int: the sum wraps around.
IntAdd(a, b) == ToInt((a + b) % (2 ^ IntBits))

\* a % n on int: the remainder has the sign of a.
IntRem(a, n) == IF a >= 0 THEN a % n ELSE 0 - ((0 - a) % n)

\* The rotation starts at the second validator.
ProposerIdxFromOne(h, r, n) == IntRem(IntAdd(IntAdd(ToInt(h), ToInt(r)), 1), n)

\* proposerIdx := (int(h) + int(r)) % len(valSet.Validators)
ProposerIdx(h, r, n) == IntRem(IntAdd(ToInt(h), ToInt(r)), n)

\* DefaultProposerSelection: valSet.Validators[proposerIdx], positions from 0. The
\* index expression panics when proposerIdx is negative.
DefaultProposerSelection(h, r, valSet) == valSet[ProposerIdx(h, r, Len(valSet)) + 1]

(***************************************************************************)
(* The proposed headers the engine can present.                            *)
(***************************************************************************)
GoodAnn == MarshalBlockAnnotation(FormatRFC3339(0))

LaterAnn == MarshalBlockAnnotation(FormatRFC3339(TicksPerSecond))

Locs == <<"l">>

PH(hash, h, r, id, ann, key) ==
    [Hash |-> hash, Height |-> h, Round |-> r, DataID |-> id,
     BlockAnn |-> ann, PropAnn |-> MarshalProposalDriverAnnotation(Locs),
     ProposerPubKey |-> key]

Headers ==
    { PH("p1", 1, 0, DataID(1, 0, <<"a", "b">>), GoodAnn, "A"),
      PH("p2", 1, 0, DataID(1, 0, <<"a", "x", "b">>), GoodAnn, "A"),
      PH("p3", 1, 0, DataID(1, 0, <<>>), LaterAnn, "A"),
      PH("p4", 2, 0, DataID(1, 0, <<>>), GoodAnn, "A"),
      PH("p5", 1, 1, DataID(1, 0, <<>>), GoodAnn, "B"),
      PH("p6", 1, 0, <<"1", ":", "0", ":", "z">>, GoodAnn, "B"),
      PH("p7", 1, 0, DataID(1, 0, <<"a", "b">>), <<"?">>, "B"),
      PH("p8", 1, 0, DataID(1, 0, <<>>), MarshalBlockAnnotation(<<"n", "o", "w">>), "B") }

\* The round of the two-validator scenario, and the headers of its proposals: that
\* of validator A for round 0, with one transaction, and one of validator B for
\* round 1.
ScenarioHeight == 10

ScenarioHeaders ==
    { PH("pA", ScenarioHeight, 0, DataID(ScenarioHeight, 0, <<"a">>), GoodAnn, "A"),
      PH("pB", ScenarioHeight, 1, DataID(ScenarioHeight, 1, <<"a">>), GoodAnn, "B") }

ScenarioLists ==
    {<<>>} \cup {<<p>> : p \in ScenarioHeaders}
           \cup {<<p, q>> : p \in ScenarioHeaders, q \in ScenarioHeaders}

\* Lists of at most n headers.
RECURSIVE HeaderLists(_)
HeaderLists(n) ==
    IF n = 0 THEN {<<>>}
    ELSE HeaderLists(n - 1) \cup
         {Append(l, p) : l \in {m \in HeaderLists(n - 1) : Len(m) = n - 1}, p \in Headers}

PhsInputs == HeaderLists(MaxPhs)

\* The headers that carry the local proposer's data, and the lists of them.
OwnHeaders == {p \in Headers : p.Hash \in {"p1", "p3"}}

OwnPhsInputs == {l \in PhsInputs : \A i \in 1..Len(l) : l[i] \in OwnHeaders}

\* A decoded block annotation with its time.
DecodeAnn(ba) == [ba |-> ba, bt |-> BlockAnnotationTime(ba)]

\* ParseDataID on the data IDs of the model's headers, computed once.
ParsedDataID ==
    [id \in {p.DataID : p \in Headers \cup ScenarioHeaders} |-> ParseDataID(id)]

\* The decoded block annotation and its time, on the annotations of the model's headers.
DecodedAnn ==
    [b \in {p.BlockAnn : p \in Headers} |-> DecodeAnn(UnmarshalBlockAnnotation(b))]

\* The batches that data identifiers of the model name.
Batches == {<<"a">>, <<"a", "b">>, <<"a", "x", "b">>}

\* The batch whose content hash a data identifier carries.
BatchOf(id) == CHOOSE txs \in Batches : HashHex(txs) = ParseDataID(id).hash

(***************************************************************************)
(* State.                                                                  *)
(***************************************************************************)
VARIABLES
    curH,          \* ConsensusStrategy.curH
    curR,          \* ConsensusStrategy.curR
    signerPubKey,  \* ConsensusStrategy.signerPubKey
    bdrCache,      \* ConsensusStrategy.bdrCache: data ID -> [ready, txs]
    inflight,      \* data IDs a background retrieval of the pbdr is working on
    now,           \* the local clock, in ticks
    pc,            \* where the engine's hook call stands
    ret,           \* the running or returned hook call, as the engine observes it
    entered,       \* the (height, round) of the most recent EnterRound call
    deferred,      \* the hashes of the headers deferred since that call
    proposed,      \* the data IDs of the proposal built by that call
    rejected,      \* the hashes of the headers a noting scan rejected since that call
    txBuf,         \* GordianGRPC.txBuf: the transactions AddTx accepted, in order
    component,     \* gserver.Component: its parts and what has happened to them
    rootStore      \* root.Store: its fields and the calls made on its closers

vars == <<curH, curR, signerPubKey, bdrCache, inflight, now, pc, ret, entered, deferred,
          proposed, rejected, txBuf, component, rootStore>>

NoCall == [op |-> "none"]

Nil == "nil"

ErrProposedBlockChoiceNotReady == "ErrProposedBlockChoiceNotReady"

(***************************************************************************)
(* Request cache (gsbd.RequestCache) and retriever (PBDRetriever).         *)
(***************************************************************************)
\* A request that is not ready holds no data yet.
NotReadyRequest == [ready |-> FALSE, txs |-> <<>>, enc |-> <<>>]

EmptyCache == [k \in {} |-> NotReadyRequest]

\* RequestCache.Get
CacheGet(cache, id) ==
    IF id \in DOMAIN cache THEN [ok |-> TRUE, bdr |-> cache[id]]
    ELSE [ok |-> FALSE, bdr |-> NotReadyRequest]

CachePut(cache, id, rec) ==
    [k \in (DOMAIN cache) \cup {id} |-> IF k = id THEN rec ELSE cache[k]]

\* RequestCache.SetImmediatelyAvailable
SetImmediatelyAvailable(cache, id, txs, encoded) ==
    CachePut(cache, id, [ready |-> TRUE, txs |-> txs, enc |-> encoded])

\* PBDRetriever.Retrieve: when it starts, the request is in the cache, not ready,
\* and a background task works on it.
Retrieve(st, id, ok) ==
    IF ok
    THEN [cache |-> CachePut(st.cache, id, NotReadyRequest),
          inflight |-> st.inflight \cup {id}]
    ELSE st

(***************************************************************************)
(* ConsiderProposedBlocks.                                                 *)
(***************************************************************************)
\* A height-only comparison of the header with the round context.
HeaderMatchesHeightOnly(ph, h, r) == ph.Height = h

\* The header's height and round against the round context.
HeaderMatchesRound(ph, h, r) == ph.Height = h /\ ph.Round = r

\* A height-only comparison of the parsed data ID with the round context.
IDMatchesHeightOnly(p, h, r) == p.h = h

\* The height and round parsed from the data ID against the round context.
IDMatchesRound(p, h, r) == p.h = h /\ p.r = r

\* The state handed to the next SimulateWithState: the one the last simulation returned.
NextSimState(res) == res.state

\* Only a state-access error ends the evaluation; a rejected transaction does not.
SimAbortsOnErrOnly(res) == res.err

\* Whether the simulation result of a transaction ends the candidate's evaluation.
SimAborts(res) == res.err \/ res.resError

\* The future-time check left out.
TimeInFutureNever(bt, t) == FALSE

\* bt.After(time.Now())
TimeInFuture(bt, t) == bt > t

SimCall(fn, st, tx, res) ==
    [fn |-> fn, state |-> st, tx |-> tx, err |-> res.err, resError |-> res.resError]

RECURSIVE SimRest(_, _, _, _, _)

\* A failure of a later transaction skips that transaction only: the loop goes on
\* with the next transaction of the batch.
SimStepSkipsTx(res, txs, i, errTx, calls) ==
    SimRest(txs, i + 1, NextSimState(res), errTx, calls)

\* After the simulation res of txs[i]: stop at a failure, else go on with txs[i+1].
SimStep(res, txs, i, errTx, calls) ==
    IF SimAborts(res) THEN [aborted |-> TRUE, calls |-> calls]
    ELSE SimRest(txs, i + 1, NextSimState(res), errTx, calls)

\* The call of SimulateWithState for txs[i], recorded, and what follows it.
SimulatedRest(res, txs, i, st, errTx, calls) ==
    SimStep(res, txs, i, errTx, Append(calls, SimCall("SimulateWithState", st, txs[i], res)))

\* The loop over txs[1:], at txs[i], with st the state the simulation before returned.
SimRest(txs, i, st, errTx, calls) ==
    IF i > Len(txs) THEN [aborted |-> FALSE, calls |-> calls]
    ELSE SimulatedRest(SimulateWithState(st, txs[i], errTx), txs, i, st, errTx, calls)

\* The call of Simulate for txs[0], recorded, and what follows it.
SimulatedFirst(res, txs, errTx) ==
    SimStep(res, txs, 1, errTx, <<SimCall("Simulate", CommittedState, txs[1], res)>>)

\* The simulation of a ready batch: Simulate for txs[0], then SimulateWithState.
SimBatch(txs, errTx) == SimulatedFirst(Simulate(txs[1], errTx), txs, errTx)

Eval(outcome, sims, retr, st) ==
    [outcome |-> outcome, sims |-> sims, retr |-> retr, looked |-> FALSE, st |-> st]

\* The errors of the decoding are dropped: the zero time is checked instead.
AnnotationOutcomeIgnoresErrors(d, t, sims, st) ==
    IF d.ba.ok /\ d.bt.ok /\ TimeInFuture(d.bt.t, t) THEN Eval("future", sims, <<>>, st)
    ELSE Eval("accept", sims, <<>>, st)

\* The checks on a decoded block annotation, and the acceptance.
AnnotationOutcome(d, t, sims, st) ==
    IF ~d.ba.ok THEN Eval("annDecode", sims, <<>>, st)
    ELSE IF ~d.bt.ok THEN Eval("annTime", sims, <<>>, st)
    ELSE IF TimeInFuture(d.bt.t, t) THEN Eval("future", sims, <<>>, st)
    ELSE Eval("accept", sims, <<>>, st)

\* The block annotation checks of one candidate and its acceptance.
CheckAnnotation(ph, t, sims, st) == AnnotationOutcome(DecodedAnn[ph.BlockAnn], t, sims, st)

\* After the simulation sb of a ready batch.
CheckSimulated(sb, ph, t, st) ==
    IF sb.aborted THEN Eval("simFailed", sb.calls, <<>>, st)
    ELSE CheckAnnotation(ph, t, sb.calls, st)

\* The readiness of a request is never seen: a request in the cache counts as pending.
CheckRequestNeverReady(g, ph, t, st, errTx, retrOk) ==
    IF ~g.ok
    THEN Eval("absent", <<>>, <<[id |-> ph.DataID, pda |-> ph.PropAnn, err |-> ~retrOk]>>,
              Retrieve(st, ph.DataID, retrOk))
    ELSE Eval("pending", <<>>, <<>>, st)

\* Retrieve is handed the header's block annotation instead of the proposal's.
CheckRequestWrongAnnotation(g, ph, t, st, errTx, retrOk) ==
    IF ~g.ok
    THEN Eval("absent", <<>>, <<[id |-> ph.DataID, pda |-> ph.BlockAnn, err |-> ~retrOk]>>,
              Retrieve(st, ph.DataID, retrOk))
    ELSE IF ~g.bdr.ready THEN Eval("pending", <<>>, <<>>, st)
    ELSE CheckSimulated(SimBatch(g.bdr.txs, errTx), ph, t, st)

\* A request that is not ready is retrieved again, as an absent one is.
CheckRequestRetrievesPending(g, ph, t, st, errTx, retrOk) ==
    IF ~g.ok \/ ~g.bdr.ready
    THEN Eval("absent", <<>>, <<[id |-> ph.DataID, pda |-> ph.PropAnn, err |-> ~retrOk]>>,
              Retrieve(st, ph.DataID, retrOk))
    ELSE CheckSimulated(SimBatch(g.bdr.txs, errTx), ph, t, st)

\* The call waits for a request that is not ready: it goes on when the retrieval
\* has completed, and simulates the batch.
CheckRequestWaitsForReady(g, ph, t, st, errTx, retrOk) ==
    IF ~g.ok
    THEN Eval("absent", <<>>, <<[id |-> ph.DataID, pda |-> ph.PropAnn, err |-> ~retrOk]>>,
              Retrieve(st, ph.DataID, retrOk))
    ELSE CheckSimulated(SimBatch(BatchOf(ph.DataID), errTx), ph, t,
                        [cache |-> SetImmediatelyAvailable(st.cache, ph.DataID,
                                      BatchOf(ph.DataID), EncodeTxs(BatchOf(ph.DataID))),
                         inflight |-> st.inflight \ {ph.DataID}])

\* With g the result of the cache lookup: start a retrieval when the request is
\* absent, skip while it is not ready, simulate its transactions when it is.
CheckRequest(g, ph, t, st, errTx, retrOk) ==
    IF ~g.ok
    THEN Eval("absent", <<>>, <<[id |-> ph.DataID, pda |-> ph.PropAnn, err |-> ~retrOk]>>,
              Retrieve(st, ph.DataID, retrOk))
    ELSE IF ~g.bdr.ready THEN Eval("pending", <<>>, <<>>, st)
    ELSE CheckSimulated(SimBatch(g.bdr.txs, errTx), ph, t, st)

\* The data checks of one candidate whose data ID has nTxs # 0.
CheckData(ph, t, st, errTx, retrOk) ==
    [CheckRequest(CacheGet(st.cache, ph.DataID), ph, t, st, errTx, retrOk)
        EXCEPT !.looked = TRUE]

\* The data is checked whatever the transaction count of the data ID.
EvalParsedAlwaysChecksData(p, ph, h, r, t, st, errTx, retrOk) ==
    IF ~p.ok THEN Eval("unparseable", <<>>, <<>>, st)
    ELSE IF ~IDMatchesRound(p, h, r) THEN Eval("idRound", <<>>, <<>>, st)
    ELSE CheckData(ph, t, st, errTx, retrOk)

\* The checks that follow the parse p of the candidate's data ID.
EvalParsed(p, ph, h, r, t, st, errTx, retrOk) ==
    IF ~p.ok THEN Eval("unparseable", <<>>, <<>>, st)
    ELSE IF ~IDMatchesRound(p, h, r) THEN Eval("idRound", <<>>, <<>>, st)
    ELSE IF p.nTxs # 0 THEN CheckData(ph, t, st, errTx, retrOk)
    ELSE CheckAnnotation(ph, t, <<>>, st)

\* A header rejected earlier in the round is excluded.
ExcludedOnceRejected(ph) == ph.Hash \in rejected

\* const excluded = false: no header is excluded from the round.
Excluded(ph) == FALSE

\* One iteration of PH_LOOP: the evaluation of candidate ph.
EvalCandidate(ph, h, r, t, st, errTx, retrOk) ==
    IF Excluded(ph) THEN Eval("excluded", <<>>, <<>>, st)
    ELSE IF ~HeaderMatchesRound(ph, h, r) THEN Eval("headerRound", <<>>, <<>>, st)
    ELSE EvalParsed(ParsedDataID[ph.DataID], ph, h, r, t, st, errTx, retrOk)

\* What the call records of an evaluation.
EvalRecord(e) ==
    [outcome |-> e.outcome, sims |-> e.sims, retr |-> e.retr, looked |-> e.looked]

RECURSIVE ConsiderLoop(_, _, _, _, _, _, _, _, _)

\* The scan does not stop at an accepted candidate: the hash returned is that of the
\* last candidate of the list.
LoopStepNoReturn(e, phs, i, h, r, ts, errTx, retrOk, evals) ==
    IF e.outcome = "accept" /\ i = Len(phs)
    THEN [hash |-> phs[i].Hash, err |-> Nil, evals |-> evals, st |-> e.st]
    ELSE ConsiderLoop(phs, i + 1, h, r, ts, e.st, errTx, retrOk, evals)

\* A data ID that does not parse ends the call with an error.
LoopStepFailsOnParseError(e, phs, i, h, r, ts, errTx, retrOk, evals) ==
    IF e.outcome = "accept"
    THEN [hash |-> phs[i].Hash, err |-> Nil, evals |-> evals, st |-> e.st]
    ELSE IF e.outcome = "unparseable"
    THEN [hash |-> "", err |-> "parse", evals |-> evals, st |-> e.st]
    ELSE ConsiderLoop(phs, i + 1, h, r, ts, e.st, errTx, retrOk, evals)

\* The error of Retrieve is returned by the call.
LoopStepReturnsRetrieveError(e, phs, i, h, r, ts, errTx, retrOk, evals) ==
    IF e.outcome = "accept"
    THEN [hash |-> phs[i].Hash, err |-> Nil, evals |-> evals, st |-> e.st]
    ELSE IF \E k \in 1..Len(e.retr) : e.retr[k].err
    THEN [hash |-> "", err |-> "retrieve", evals |-> evals, st |-> e.st]
    ELSE ConsiderLoop(phs, i + 1, h, r, ts, e.st, errTx, retrOk, evals)

\* After the evaluation e of candidate i, recorded in evals: return its hash when
\* it is accepted, else go on with candidate i + 1.
LoopStep(e, phs, i, h, r, ts, errTx, retrOk, evals) ==
    IF e.outcome = "accept"
    THEN [hash |-> phs[i].Hash, err |-> Nil, evals |-> evals, st |-> e.st]
    ELSE ConsiderLoop(phs, i + 1, h, r, ts, e.st, errTx, retrOk, evals)

\* The evaluation e of candidate i joins the record of the call.
Evaluated(e, phs, i, h, r, ts, errTx, retrOk, evals) ==
    LoopStep(e, phs, i, h, r, ts, errTx, retrOk, Append(evals, EvalRecord(e)))

\* The end of the list is reached without error: the empty hash is returned with nil.
ConsiderLoopEndsWithNil(phs, i, h, r, ts, st, errTx, retrOk, evals) ==
    IF i > Len(phs)
    THEN [hash |-> "", err |-> Nil, evals |-> evals, st |-> st]
    ELSE Evaluated(EvalCandidate(phs[i], h, r, ts[i], st, errTx, retrOk),
                   phs, i, h, r, ts, errTx, retrOk, evals)

\* PH_LOOP from candidate i on; evals are the evaluations made so far, and ts[i] is
\* what time.Now() returns when candidate i is evaluated.
ConsiderLoop(phs, i, h, r, ts, st, errTx, retrOk, evals) ==
    IF i > Len(phs)
    THEN [hash |-> "", err |-> ErrProposedBlockChoiceNotReady, evals |-> evals, st |-> st]
    ELSE Evaluated(EvalCandidate(phs[i], h, r, ts[i], st, errTx, retrOk),
                   phs, i, h, r, ts, errTx, retrOk, evals)

\* The whole call on the strategy's state.
ConsiderResult(phs, ts, errTx, retrOk) ==
    ConsiderLoop(phs, 1, curH, curR, ts, [cache |-> bdrCache, inflight |-> inflight],
                 errTx, retrOk, <<>>)

\* The readings of n candidates when the clock ticks just before candidate k.
ReadingsWithTickAt(t, n, k) == [i \in 1..n |-> IF i < k THEN t ELSE t + 1]

\* The readings of the clock n candidates in a row can see, from time t on: the
\* clock does not go back, and it ticks at most once between two candidates of a call.
ClockReadings(t, n) ==
    {ReadingsWithTickAt(t, n, n + 1)} \cup
    (IF t < MaxNow THEN {ReadingsWithTickAt(t, n, k) : k \in 2..n} ELSE {})

\* The clock once the call has evaluated n candidates.
ClockAfter(ts, n) == IF n = 0 THEN now ELSE ts[n]

\* The transaction whose simulation cannot read state, if any.
ErrTxInputs == {"none", "a", "b"}

\* The hashes of the headers the evaluations left waiting for their data.
DeferredBy(phs, evals) ==
    {phs[j].Hash : j \in {k \in 1..Len(evals) : evals[k].outcome \in {"absent", "pending"}}}

\* The effect of the call whose result is res.
ConsiderReturns(res, phs, ts, errTx) ==
    /\ bdrCache' = res.st.cache
    /\ inflight' = res.st.inflight
    /\ now' = ClockAfter(ts, Len(res.evals))
    /\ ret' = [op |-> "ConsiderProposedBlocks", phs |-> phs, hash |-> res.hash,
               err |-> res.err, evals |-> res.evals, times |-> ts, cache |-> bdrCache,
               errTx |-> errTx]
    /\ pc' = "returned"
    /\ deferred' = deferred \cup DeferredBy(phs, res.evals)
    /\ UNCHANGED <<curH, curR, signerPubKey, entered, proposed>>

ConsiderProposedBlocksOn(lists) ==
    /\ pc = "idle"
    /\ \E phs \in lists, errTx \in ErrTxInputs, retrOk \in BOOLEAN :
         \E ts \in ClockReadings(now, Len(phs)) :
            ConsiderReturns(ConsiderResult(phs, ts, errTx, retrOk), phs, ts, errTx)
    /\ UNCHANGED <<rejected, txBuf, component, rootStore>>

\* The hashes of the headers the evaluations rejected for a failed simulation or a
\* claimed time in the future.
RejectedBy(phs, evals) ==
    {phs[j].Hash : j \in {k \in 1..Len(evals) : evals[k].outcome \in {"simFailed", "future"}}}

ConsiderNotes(res, phs, ts, errTx) ==
    /\ ConsiderReturns(res, phs, ts, errTx)
    /\ rejected' = rejected \cup RejectedBy(phs, res.evals)
    /\ UNCHANGED <<txBuf, component, rootStore>>

\* The same call, in runs that keep the history of the rejected headers.
ConsiderProposedBlocksNoting(lists) ==
    /\ pc = "idle"
    /\ \E phs \in lists, errTx \in ErrTxInputs, retrOk \in BOOLEAN :
         \E ts \in ClockReadings(now, Len(phs)) :
            ConsiderNotes(ConsiderResult(phs, ts, errTx, retrOk), phs, ts, errTx)

\* The "not ready" condition is passed on to the engine as an error.
ChooseResultPassesNotReady(res) ==
    IF res.err # Nil THEN [hash |-> "", err |-> res.err]
    ELSE [hash |-> res.hash, err |-> Nil]

\* ChooseProposedBlock on the result res of its call of ConsiderProposedBlocks:
\* ErrProposedBlockChoiceNotReady becomes ("", nil), another error is passed on.
ChooseResult(res) ==
    IF res.err = ErrProposedBlockChoiceNotReady THEN [hash |-> "", err |-> Nil]
    ELSE IF res.err # Nil THEN [hash |-> "", err |-> res.err]
    ELSE [hash |-> res.hash, err |-> Nil]

ChooseReturns(res, out, phs, ts, errTx) ==
    /\ bdrCache' = res.st.cache
    /\ inflight' = res.st.inflight
    /\ now' = ClockAfter(ts, Len(res.evals))
    /\ ret' = [op |-> "ChooseProposedBlock", phs |-> phs, hash |-> out.hash,
               err |-> out.err, inner |-> [hash |-> res.hash, err |-> res.err],
               evals |-> res.evals, times |-> ts, cache |-> bdrCache, errTx |-> errTx]
    /\ pc' = "returned"
    /\ deferred' = deferred \cup DeferredBy(phs, res.evals)
    /\ UNCHANGED <<curH, curR, signerPubKey, entered, proposed, rejected, txBuf, component, rootStore>>

ChooseReturnsOf(res, phs, ts, errTx) == ChooseReturns(res, ChooseResult(res), phs, ts, errTx)

ChooseProposedBlockOn(lists) ==
    /\ pc = "idle"
    /\ \E phs \in lists, errTx \in ErrTxInputs, retrOk \in BOOLEAN :
         \E ts \in ClockReadings(now, Len(phs)) :
            ChooseReturnsOf(ConsiderResult(phs, ts, errTx, retrOk), phs, ts, errTx)

(***************************************************************************)
(* EnterRound.                                                             *)
(***************************************************************************)
\* The round views the engine enters with: the headers it has already seen.
SeenHeaders ==
    {<<>>, <<PH("p5", 1, 1, DataID(1, 0, <<>>), GoodAnn, "B")>>,
     <<PH("p4", 2, 0, DataID(1, 0, <<>>), GoodAnn, "A")>>}

\* The snapshots SDKTxBuf.Buffered returns.
Snapshots == {<<>>, <<"a", "b">>}

\* gsbd.Provider.Provide(ctx, height, round, txs)
Provide(h, r, txs) ==
    [DataID |-> DataID(h, r, txs), Addrs |-> Locs, Encoded |-> EncodeTxs(txs)]

\* Every node takes itself for the proposer of the round.
WeShouldProposeAlways(proposingVal, signer) == TRUE

\* The proposer check of lines 155-159.
WeShouldPropose(proposingVal, signer) == PubKeyEqual(proposingVal.PubKey, signer)

\* Any header of the round view counts as the proposer's own.
AlreadyProposedAnyHeader(rv, val) == Len(rv.ProposedHeaders) > 0

\* The headers of the round view are not looked at.
AlreadyProposedNever(rv, val) == FALSE

\* Whether the round view already holds a header proposed by val.
AlreadyProposed(rv, val) ==
    \E i \in 1..Len(rv.ProposedHeaders) :
        PubKeyEqual(val.PubKey, rv.ProposedHeaders[i].ProposerPubKey)

\* The call as it stands when it returns before reading the mempool. The selector is
\* called on every call, right after the round context is recorded: the body of
\* the check for a nil signer key is empty, and the call goes on past it.
EnterCall(rv, outNil, outcome, err) ==
    [op |-> "EnterRound", rv |-> rv, outNil |-> outNil, outcome |-> outcome, err |-> err,
     selected |-> <<DefaultProposerSelection(rv.Height, rv.Round, rv.ValidatorSet)>>,
     buffered |-> 0, snapshot |-> <<>>, provide |-> <<>>, provideErr |-> FALSE,
     proposal |-> NoCall,
     delivered |-> FALSE, ctxDone |-> FALSE, cache |-> bdrCache]

\* The snapshot is handed to Provide in reverse order.
ProvideArgsReversed(h, r, pendingTxs) ==
    [h |-> h, r |-> r,
     txs |-> [i \in 1..Len(pendingTxs) |-> pendingTxs[Len(pendingTxs) + 1 - i]]]

\* The arguments of the call c.provider.Provide(ctx, c.curH, c.curR, pendingTxs).
ProvideArgs(h, r, pendingTxs) == [h |-> h, r |-> r, txs |-> pendingTxs]

\* The empty batch is always identified as that of round 0.
EmptyBatchIDOfRoundZero(h, r) == DataID(h, 0, <<>>)

\* gsbd.DataID(c.curH, c.curR, 0, nil): the identifier of the empty batch.
EmptyBatchID(h, r) == DataID(h, r, <<>>)

\* The proposed data is stored as a request that is not ready.
MarkProposedNotReady(cache, res, pendingTxs) == CachePut(cache, res.DataID, NotReadyRequest)

\* The proposed data is not put in the cache.
MarkProposedSkipped(cache, res, pendingTxs) == cache

\* c.bdrCache.SetImmediatelyAvailable(blockDataID, pendingTxs, res.Encoded)
MarkProposed(cache, res, pendingTxs) ==
    SetImmediatelyAvailable(cache, res.DataID, pendingTxs, res.Encoded)

\* The tmconsensus.Proposal sent to the engine; pda is empty when it is nil.
Proposal(id, ba, pda) == [DataID |-> id, BlockAnn |-> ba, PropAnn |-> pda]

\* The error of Provide is dropped and the call goes on with the result.
ProposesDataDespiteError(call, args, res, ba, provideOk) ==
    /\ ret' = [call EXCEPT !.provide = <<args>>, !.provideErr = ~provideOk,
                 !.proposal = Proposal(res.DataID, ba,
                                       MarshalProposalDriverAnnotation(res.Addrs))]
    /\ bdrCache' = MarkProposed(bdrCache, res, call.snapshot)
    /\ pc' = "sending"

\* The rest of the call once the proposer holds a non-empty snapshot: args are the
\* arguments of Provide and res what it returns when it succeeds.
ProposesData(call, args, res, ba, provideOk) ==
    IF ~provideOk
    THEN /\ ret' = [call EXCEPT !.outcome = "provideFailed", !.err = "provide",
                                !.provide = <<args>>, !.provideErr = TRUE]
         /\ pc' = "returned"
         /\ UNCHANGED bdrCache
    ELSE /\ ret' = [call EXCEPT !.provide = <<args>>,
                      !.proposal = Proposal(res.DataID, ba,
                                            MarshalProposalDriverAnnotation(res.Addrs))]
         /\ bdrCache' = MarkProposed(bdrCache, res, call.snapshot)
         /\ pc' = "sending"

\* The proposer's call from the block annotation on (lines 177-208), up to the
\* blocking send; call holds the snapshot the mempool returned.
Proposes(call, h, r, ba, args, provideOk) ==
    IF Len(call.snapshot) = 0
    THEN /\ ret' = [call EXCEPT !.proposal = Proposal(EmptyBatchID(h, r), ba, <<>>)]
         /\ pc' = "sending"
         /\ UNCHANGED bdrCache
    ELSE ProposesData(call, args, Provide(args.h, args.r, args.txs), ba, provideOk)

\* The call after the round context is recorded (lines 151-208).
Enters(rv, proposingVal, outNil, pendingTxs, provideOk) ==
    IF ~WeShouldPropose(proposingVal, signerPubKey)
    THEN /\ ret' = EnterCall(rv, outNil, "notProposer", Nil)
         /\ pc' = "returned"
         /\ UNCHANGED bdrCache
    ELSE IF outNil
    THEN /\ UNCHANGED bdrCache
         /\ IF AlreadyProposed(rv, proposingVal)
            THEN /\ ret' = EnterCall(rv, outNil, "recovered", Nil)
                 /\ pc' = "returned"
            ELSE /\ ret' = EnterCall(rv, outNil, "panic", "panic")
                 /\ pc' = "panicked"
    ELSE Proposes([EnterCall(rv, outNil, "sending", "pending") EXCEPT
                      !.buffered = 1, !.snapshot = pendingTxs],
                  rv.Height, rv.Round, MarshalBlockAnnotation(FormatRFC3339(now)),
                  ProvideArgs(rv.Height, rv.Round, pendingTxs), provideOk)

\* The data IDs of the proposal the call built, if it built one.
ProposedBy(call) == IF call.proposal = NoCall THEN {} ELSE {call.proposal.DataID}

\* tmconsensus.RoundView
RoundView(h, r, seen) ==
    [Height |-> h, Round |-> r, ValidatorSet |-> ValSet, ProposedHeaders |-> seen]

\* Only the height of the round view is recorded.
RoundContextHeightOnly(rv, h, r) == [h |-> rv.Height, r |-> r]

\* c.curH = rv.Height; c.curR = rv.Round: the round context after a call on rv made
\* when it was (h, r).
RoundContext(rv, h, r) == [h |-> rv.Height, r |-> rv.Round]

\* The call on the round view rv.
EntersRound(rv, outNil, pendingTxs, provideOk) ==
    /\ curH' = RoundContext(rv, curH, curR).h
    /\ curR' = RoundContext(rv, curH, curR).r
    /\ entered' = [h |-> rv.Height, r |-> rv.Round]
    /\ deferred' = {}
    /\ Enters(rv, DefaultProposerSelection(rv.Height, rv.Round, rv.ValidatorSet),
              outNil, pendingTxs, provideOk)
    /\ proposed' = ProposedBy(ret')
    /\ rejected' = {}
    /\ UNCHANGED <<txBuf, component, rootStore>>

\* The call up to its return, its panic or the blocking send of the proposal.
EnterRound ==
    /\ pc = "idle"
    /\ \E h \in 1..MaxHeight, r \in 0..MaxRound, seen \in SeenHeaders, outNil \in BOOLEAN,
          pendingTxs \in Snapshots, provideOk \in BOOLEAN :
         EntersRound(RoundView(h, r, seen), outNil, pendingTxs, provideOk)
    /\ UNCHANGED <<signerPubKey, inflight, now>>

\* The call of the scenario: on the round view of the scenario's height, with one
\* pending transaction or none.
ScenarioEnterRound ==
    /\ pc = "idle"
    /\ \E r \in 0..MaxRound, pendingTxs \in {<<>>, <<"a">>}, provideOk \in BOOLEAN :
         EntersRound(RoundView(ScenarioHeight, r, <<>>), FALSE, pendingTxs, provideOk)
    /\ UNCHANGED <<signerPubKey, inflight, now>>

\* A cancelled send is reported as a success.
SendReturnsNilAlways(call, sent) ==
    [call EXCEPT !.outcome = IF sent THEN "sent" ELSE "cancelled", !.err = Nil,
                 !.delivered = sent]

\* The call once gchan.SendC has returned sent (lines 210-226): nil when the value
\* went out, context.Cause(ctx) when the context was done first.
SendReturns(call, sent) ==
    IF sent
    THEN [call EXCEPT !.outcome = "sent", !.err = Nil, !.delivered = TRUE]
    ELSE [call EXCEPT !.outcome = "cancelled", !.err = "cause"]

\* The context of the call is cancelled while the send blocks.
CancelContext ==
    /\ pc = "sending"
    /\ ~ret.ctxDone
    /\ ret' = [ret EXCEPT !.ctxDone = TRUE]
    /\ UNCHANGED <<curH, curR, signerPubKey, bdrCache, inflight, now, pc, entered, deferred,
                   proposed, rejected, txBuf, component, rootStore>>

\* gchan.SendC: the engine receives the proposal and EnterRound returns nil. The
\* select may take this case even when the context is done as well.
EngineReceives ==
    /\ pc = "sending"
    /\ ret' = SendReturns(ret, TRUE)
    /\ pc' = "returned"
    /\ UNCHANGED <<curH, curR, signerPubKey, bdrCache, inflight, now, entered, deferred,
                   proposed, rejected, txBuf, component, rootStore>>

\* The cancelled call takes the record of the proposed data out of the cache.
ContextCancelledUnmarks ==
    /\ pc = "sending"
    /\ ret.ctxDone
    /\ ret' = SendReturns(ret, FALSE)
    /\ pc' = "returned"
    /\ bdrCache' = [id \in DOMAIN bdrCache \ {ret.proposal.DataID} |-> bdrCache[id]]
    /\ UNCHANGED <<curH, curR, signerPubKey, inflight, now, entered, deferred,
                   proposed, rejected, txBuf, component, rootStore>>

\* gchan.SendC: the select takes ctx.Done() and EnterRound returns the cause.
ContextCancelled ==
    /\ pc = "sending"
    /\ ret.ctxDone
    /\ ret' = SendReturns(ret, FALSE)
    /\ pc' = "returned"
    /\ UNCHANGED <<curH, curR, signerPubKey, bdrCache, inflight, now, entered, deferred,
                   proposed, rejected, txBuf, component, rootStore>>

(***************************************************************************)
(* DecidePrecommit.                                                        *)
(***************************************************************************)
\* tmconsensus.ByzantineMajority: the least power above two thirds of n.
ByzantineMajority(n) == ((2 * n) \div 3) + 1

\* vs.PrevoteBlockPower[hash]: zero for a hash without an entry.
PrevotePower(vs, hash) ==
    IF hash \in DOMAIN vs.PrevoteBlockPower THEN vs.PrevoteBlockPower[hash] ELSE 0

\* The most-prevoted hash is returned only above the threshold, not at it.
DecideAboveMajorityOnly(vs, maj, pow) ==
    IF pow > maj THEN [hash |-> vs.MostVotedPrevoteHash, err |-> Nil]
    ELSE [hash |-> "", err |-> Nil]

\* The most-prevoted hash is returned from two thirds on, two thirds included.
DecideFromTwoThirds(vs, maj, pow) ==
    IF pow >= maj - 1 THEN [hash |-> vs.MostVotedPrevoteHash, err |-> Nil]
    ELSE [hash |-> "", err |-> Nil]

\* The decision, with maj the threshold and pow the power of the most-prevoted hash.
Decide(vs, maj, pow) ==
    IF pow >= maj THEN [hash |-> vs.MostVotedPrevoteHash, err |-> Nil]
    ELSE [hash |-> "", err |-> Nil]

\* The (hash, error) DecidePrecommit returns.
DecidePrecommitResult(vs) ==
    Decide(vs, ByzantineMajority(vs.AvailablePower),
           PrevotePower(vs, vs.MostVotedPrevoteHash))

\* The hashes prevoted for.
BlockHashes == {"p1", "p2"}

\* A summary with power p behind block "p1" and q behind block "p2", cast by
\* disjoint sets of validators; a block without votes has no entry.
VoteSummary(n, p, q) ==
    [AvailablePower |-> n,
     PrevoteBlockPower |-> [k \in {"p1"} \cup (IF q > 0 THEN {"p2"} ELSE {}) |->
                               IF k = "p1" THEN p ELSE q],
     MostVotedPrevoteHash |-> IF p >= q THEN "p1" ELSE "p2"]

\* Largest available power of the summaries given in runs of the whole strategy.
SmallPower == 3

\* The effect of the call whose result is res.
DecideReturns(res, vs) ==
    /\ ret' = [op |-> "DecidePrecommit", vs |-> vs, hash |-> res.hash, err |-> res.err]
    /\ pc' = "returned"
    /\ UNCHANGED <<curH, curR, signerPubKey, bdrCache, inflight, now, entered, deferred, proposed, rejected, txBuf, component, rootStore>>

\* The call on the summary vs.
Decides(vs) == DecideReturns(DecidePrecommitResult(vs), vs)

\* The call on a summary of available power n up to maxN: the two blocks share at
\* most n.
DecidePrecommitOn(maxN) ==
    /\ pc = "idle"
    /\ \E n \in 0..maxN : \E p \in 0..n : \E q \in 0..(n - p) : Decides(VoteSummary(n, p, q))

DecidePrecommit == DecidePrecommitOn(SmallPower)

(***************************************************************************)
(* The block-data identifier codec on its own.                             *)
(***************************************************************************)
\* Largest height and data length, and largest round and transaction count, of the
\* tuples encoded.
MaxCodecNum == 10

MaxCodecCount == 1

\* Hashes of the tuples encoded: hex text of the length of a hash.
CodecHashes == {zeroHash, HashHex(<<"a", "b">>)}

Tuple(h, r, n, d, x) == [h |-> h, r |-> r, nTxs |-> n, dataLen |-> d, hash |-> x]

\* The token of a tuple.
EncodeTuple(t) == EncodeDataID(t.h, t.r, t.nTxs, t.dataLen, t.hash)

\* The tuple t is encoded, its token parsed and the parsed fields encoded again;
\* token2 is the token of the tuple t2.
CodecCall(t, token, parsed, t2, token2) ==
    /\ ret' = [op |-> "DataIDCodec", t |-> t, token |-> token, parsed |-> parsed,
               again |-> EncodeDataID(parsed.h, parsed.r, parsed.nTxs, parsed.dataLen,
                                      parsed.hash),
               t2 |-> t2, token2 |-> token2]
    /\ pc' = "returned"
    /\ UNCHANGED <<curH, curR, signerPubKey, bdrCache, inflight, now, entered, deferred,
                   proposed, rejected, txBuf, component, rootStore>>

EncodesTuples(t, t2) ==
    CodecCall(t, EncodeTuple(t), ParseDataID(EncodeTuple(t)), t2, EncodeTuple(t2))

\* encode and parse on every tuple of the bounds, next to a second tuple whose
\* numbers are the least or the largest of the bounds.
EncodesAndParses ==
    /\ pc = "idle"
    /\ \E h \in 0..MaxCodecNum, r \in 0..MaxCodecCount, n \in 0..MaxCodecCount,
          d \in 0..MaxCodecNum, x \in CodecHashes :
         \E h2 \in {0, MaxCodecNum}, r2 \in {0, MaxCodecCount}, n2 \in {0, MaxCodecCount},
            d2 \in {0, MaxCodecNum}, x2 \in CodecHashes :
            EncodesTuples(Tuple(h, r, n, d, x), Tuple(h2, r2, n2, d2, x2))

(***************************************************************************)
(* DefaultProposerSelection on its own.                                    *)
(***************************************************************************)
\* Largest validator set given to the selector on its own.
MaxVals == 3

ValNames == <<"A", "B", "C", "D", "E">>

\* A validator set of n validators, in list order.
ValSetOf(n) == [i \in 1..n |-> [PubKey |-> ValNames[i], Power |-> 10]]

\* The call DefaultProposerSelection(ctx, h, r, valSet): it returns the validator at
\* proposerIdx, or panics when proposerIdx is out of range.
Selects(h, r, valSet, idx) ==
    /\ ret' = [op |-> "DefaultProposerSelection", h |-> h, r |-> r, valSet |-> valSet,
               idx |-> idx,
               choice |-> IF idx \in 0..(Len(valSet) - 1)
                          THEN <<DefaultProposerSelection(h, r, valSet)>> ELSE <<>>]
    /\ pc' = IF idx \in 0..(Len(valSet) - 1) THEN "returned" ELSE "panicked"
    /\ UNCHANGED <<curH, curR, signerPubKey, bdrCache, inflight, now, entered, deferred,
                   proposed, rejected, txBuf, component, rootStore>>

\* The selector called on every height, every round and validator sets of every size
\* from 1 to MaxVals.
SelectProposer ==
    /\ pc = "idle"
    /\ \E h \in 0..((2 ^ IntBits) - 1), r \in 0..((2 ^ RoundBits) - 1), n \in 1..MaxVals :
         Selects(h, r, ValSetOf(n), ProposerIdx(h, r, n))

(***************************************************************************)
(* The environment: the engine, the clock and the background retrievals.   *)
(***************************************************************************)
\* The engine takes the hook's result and is free to call the next hook. The clock
\* and the background retrievals move between hook calls and during the blocking send.
Return ==
    /\ pc = "returned"
    /\ pc' = "idle"
    /\ ret' = NoCall
    /\ UNCHANGED <<curH, curR, signerPubKey, bdrCache, inflight, now, entered, deferred, proposed, rejected, txBuf, component, rootStore>>

\* The background retrievals run between hook calls, during the blocking send,
\* between the steps of a candidate's data check and while Wait blocks.
BackgroundRuns == pc \in {"idle", "sending", "got", "reading", "waiting", "stopped"}

Tick ==
    /\ pc \in {"idle", "sending"}
    /\ now < MaxNow
    /\ now' = now + 1
    /\ UNCHANGED <<curH, curR, signerPubKey, bdrCache, inflight, pc, ret, entered, deferred, proposed, rejected, txBuf, component, rootStore>>

\* A background retrieval finishes: the request holds the batch and is ready.
RetrievalCompletes ==
    /\ BackgroundRuns
    /\ \E id \in inflight :
         /\ bdrCache' = CachePut(bdrCache, id, [ready |-> TRUE, txs |-> BatchOf(id),
                                                enc |-> EncodeTxs(BatchOf(id))])
         /\ inflight' = inflight \ {id}
    /\ UNCHANGED <<curH, curR, signerPubKey, now, pc, ret, entered, deferred, proposed, rejected, txBuf, component, rootStore>>

\* A background retrieval writes the next transaction it decoded into its request,
\* which is not ready yet.
RetrievalWrites ==
    /\ BackgroundRuns
    /\ \E id \in inflight :
         /\ Len(bdrCache[id].txs) < Len(BatchOf(id))
         /\ bdrCache' = CachePut(bdrCache, id,
                                 [bdrCache[id] EXCEPT
                                     !.txs = Append(@, BatchOf(id)[Len(@) + 1])])
    /\ UNCHANGED <<curH, curR, signerPubKey, inflight, now, pc, ret, entered, deferred,
                   proposed, rejected, txBuf, component, rootStore>>

\* A background retrieval is cancelled: its request is never ready.
RetrievalCancelled ==
    /\ BackgroundRuns
    /\ \E id \in inflight : inflight' = inflight \ {id}
    /\ UNCHANGED <<curH, curR, signerPubKey, bdrCache, now, pc, ret, entered, deferred,
                   proposed, rejected, txBuf, component, rootStore>>

(***************************************************************************)
(* The data check of one candidate (lines 286-312), step by step, with the *)
(* background retrievals running between the steps.                        *)
(***************************************************************************)
\* The data IDs of the headers that announce transactions.
RetrievableIDs ==
    {p.DataID : p \in {q \in Headers : /\ ParsedDataID[q.DataID].ok
                                        /\ ParsedDataID[q.DataID].nTxs # 0}}

DataCheck(id, found) ==
    [op |-> "DataCheck", id |-> id, found |-> found, sawReady |-> FALSE, read |-> FALSE,
     txs |-> <<>>]

\* With g the result of c.bdrCache.Get: an absent request is retrieved and the
\* candidate left; a request that is there is kept for the next steps.
GetsRequestOf(g, id, retrOk) ==
    /\ ret' = DataCheck(id, g.ok)
    /\ pc' = IF g.ok THEN "got" ELSE "returned"
    /\ IF g.ok
       THEN UNCHANGED <<bdrCache, inflight>>
       ELSE /\ bdrCache' = Retrieve([cache |-> bdrCache, inflight |-> inflight], id,
                                    retrOk).cache
            /\ inflight' = Retrieve([cache |-> bdrCache, inflight |-> inflight], id,
                                    retrOk).inflight

\* bdr, ok := c.bdrCache.Get(string(ph.Header.DataID)), and Retrieve when !ok.
GetsRequest ==
    /\ pc = "idle"
    /\ \E id \in RetrievableIDs, retrOk \in BOOLEAN :
         GetsRequestOf(CacheGet(bdrCache, id), id, retrOk)
    /\ UNCHANGED <<curH, curR, signerPubKey, now, entered, deferred, proposed, rejected, txBuf, component, rootStore>>

\* The transactions are read whether or not the request is ready.
AfterReadySelectIgnoresSignal(ready) == "reading"

\* select { case <-bdr.Ready: default: continue }
AfterReadySelect(ready) == IF ready THEN "reading" ELSE "returned"

\* The hook looks at the readiness signal of the request it got.
SelectsReady ==
    /\ pc = "got"
    /\ ret' = [ret EXCEPT !.sawReady = bdrCache[ret.id].ready]
    /\ pc' = AfterReadySelect(bdrCache[ret.id].ready)
    /\ UNCHANGED <<curH, curR, signerPubKey, bdrCache, inflight, now, entered, deferred,
                   proposed, rejected, txBuf, component, rootStore>>

\* txs := bdr.Transactions
ReadsTransactions ==
    /\ pc = "reading"
    /\ ret' = [ret EXCEPT !.read = TRUE, !.txs = bdrCache[ret.id].txs]
    /\ pc' = "returned"
    /\ UNCHANGED <<curH, curR, signerPubKey, bdrCache, inflight, now, entered, deferred,
                   proposed, rejected, txBuf, component, rootStore>>

(***************************************************************************)
(* Wait.                                                                   *)
(***************************************************************************)
\* The retriever's Wait returns at once.
PBDRWaitReturnsAtOnce(running) == TRUE

\* PBDRetriever.Wait returns when no retrieval it started is running: each has
\* finished or been cancelled.
PBDRWaitReturns(running) == running = {}

\* ConsensusStrategy.Wait is called: the engine calls no hook any more.
WaitCalled ==
    /\ pc = "idle"
    /\ pc' = "waiting"
    /\ ret' = [op |-> "Wait", running |-> inflight]
    /\ UNCHANGED <<curH, curR, signerPubKey, bdrCache, inflight, now, entered, deferred,
                   proposed, rejected, txBuf, component, rootStore>>

\* s.pbdr.Wait() returns, and Wait with it.
WaitReturns ==
    /\ pc = "waiting"
    /\ PBDRWaitReturns(inflight)
    /\ pc' = "stopped"
    /\ UNCHANGED <<curH, curR, signerPubKey, bdrCache, inflight, now, ret, entered,
                   deferred, proposed, rejected, txBuf, component, rootStore>>

(***************************************************************************)
(* The server component (gserver.Component).                               *)
(* A part is "nil" until it is created and "up" from then on; the engine,  *)
(* the driver and the HTTP server are "done" once their goroutines have    *)
(* finished, and a part Stop has dealt with is "waited", "disconnected" or *)
(* "closed".                                                               *)
(***************************************************************************)
\* NewComponent: the root context is live and no part is created.
NewComponent ==
    [phase |-> "new", cancelled |-> FALSE, h |-> "nil", conn |-> "nil", e |-> "nil",
     driver |-> "nil", httpLn |-> "nil", httpServer |-> "nil"]

\* Component.Init up to the end of the HTTP set-up (lines 270-295): httpAddr when
\* an HTTP address is configured, lnOk when net.Listen succeeds.
Inits(c, httpAddr, lnOk) ==
    IF httpAddr /\ ~lnOk THEN [c EXCEPT !.phase = "initFailed"]
    ELSE [c EXCEPT !.phase = "inited", !.httpLn = IF httpAddr THEN "up" ELSE "nil"]

ComponentInit ==
    /\ pc = "idle"
    /\ component.phase = "new"
    /\ ~component.cancelled
    /\ \E httpAddr \in BOOLEAN, lnOk \in BOOLEAN :
         /\ component' = Inits(component, httpAddr, lnOk)
         /\ ret' = [op |-> "Init", err |-> IF httpAddr /\ ~lnOk THEN "listen" ELSE Nil]
    /\ pc' = "returned"
    /\ UNCHANGED <<curH, curR, signerPubKey, bdrCache, inflight, now, entered, deferred,
                   proposed, rejected, txBuf, rootStore>>

\* The steps of Start that can fail, in order, and "none" for a Start that succeeds.
StartFailures == {"host", "conn", "driver", "engine", "none"}

\* The component after Start, when the step failAt fails: a part is assigned only
\* after the call that creates it has succeeded.
Starts(c, failAt) ==
    CASE failAt = "host" -> [c EXCEPT !.phase = "startFailed"]
      [] failAt = "conn" -> [c EXCEPT !.phase = "startFailed", !.h = "up"]
      [] failAt = "driver" -> [c EXCEPT !.phase = "startFailed", !.h = "up", !.conn = "up"]
      [] failAt = "engine" ->
           [c EXCEPT !.phase = "startFailed", !.h = "up", !.conn = "up", !.driver = "up"]
      [] OTHER ->
           [c EXCEPT !.phase = "started", !.h = "up", !.conn = "up", !.driver = "up",
                     !.e = "up",
                     !.httpServer = IF c.httpLn # "nil" THEN "up" ELSE "nil"]

\* Component.Start
ComponentStart ==
    /\ pc = "idle"
    /\ component.phase = "inited"
    /\ ~component.cancelled
    /\ \E failAt \in StartFailures :
         /\ component' = Starts(component, failAt)
         /\ ret' = [op |-> "Start", err |-> IF failAt = "none" THEN Nil ELSE failAt]
    /\ pc' = "returned"
    /\ UNCHANGED <<curH, curR, signerPubKey, bdrCache, inflight, now, entered, deferred,
                   proposed, rejected, txBuf, rootStore>>

\* The parts in the order in which Stop deals with them.
StopOrder == <<"e", "driver", "conn", "h", "httpLn", "httpServer">>

\* The call Stop makes on a part.
StopCallOf(part) ==
    CASE part = "e" -> "e.Wait"
      [] part = "driver" -> "driver.Wait"
      [] part = "conn" -> "conn.Disconnect"
      [] part = "h" -> "h.Close"
      [] part = "httpLn" -> "httpLn.Close"
      [] OTHER -> "httpServer.Wait"

\* The part once Stop's call on it has returned.
StoppedAs(part) ==
    CASE part \in {"e", "driver", "httpServer"} -> "waited"
      [] part = "conn" -> "disconnected"
      [] OTHER -> "closed"

\* Stop makes its call on every part, created or not.
CreatedAlways(c, part) == TRUE

\* The nil check that guards Stop's call on a part.
Created(c, part) == c[part] # "nil"

\* The position in StopOrder after position at: the wait for the HTTP server is
\* inside the check of the listener. Past the last position Stop returns.
NextAt(c, at) ==
    IF StopOrder[at] = "httpLn" /\ ~Created(c, "httpLn") THEN Len(StopOrder) + 1 ELSE at + 1

\* Stop, first step (line 244): c.cancel.
StopCancels ==
    /\ pc = "idle"
    /\ component' = [component EXCEPT !.cancelled = TRUE]
    /\ ret' = [op |-> "Stop", before |-> component,
               calls |-> <<[fn |-> "cancel", err |-> FALSE]>>, at |-> 1, err |-> "pending"]
    /\ pc' = "stopping"
    /\ UNCHANGED <<curH, curR, signerPubKey, bdrCache, inflight, now, entered, deferred,
                   proposed, rejected, txBuf, rootStore>>

\* A wait returns when the goroutines of the part have finished.
WaitUnblocked(c, part) ==
    part \in {"e", "driver", "httpServer"} => c[part] \in {"done", "waited"}

\* Stop's call on the part at position ret.at; closeErr is the error of a Close,
\* which is logged and dropped.
StopCalls(part, closeErr) ==
    IF component[part] = "nil"
    THEN /\ ret' = [ret EXCEPT !.calls = Append(@, [fn |-> StopCallOf(part), err |-> FALSE]),
                               !.err = "panic"]
         /\ pc' = "panicked"
         /\ UNCHANGED component
    ELSE /\ WaitUnblocked(component, part)
         /\ ret' = [ret EXCEPT
                      !.calls = Append(@, [fn |-> StopCallOf(part),
                                           err |-> closeErr /\ part \in {"h", "httpLn"}]),
                      !.at = NextAt(component, ret.at)]
         /\ component' = [component EXCEPT ![part] = StoppedAs(part)]
         /\ pc' = "stopping"

\* Stop at one part of StopOrder (lines 245-266): the call when the part was
\* created, nothing when it was not.
StopStep ==
    /\ pc = "stopping"
    /\ ret.at <= Len(StopOrder)
    /\ IF Created(component, StopOrder[ret.at])
       THEN \E closeErr \in BOOLEAN : StopCalls(StopOrder[ret.at], closeErr)
       ELSE /\ ret' = [ret EXCEPT !.at = NextAt(component, ret.at)]
            /\ pc' = "stopping"
            /\ UNCHANGED component
    /\ UNCHANGED <<curH, curR, signerPubKey, bdrCache, inflight, now, entered, deferred,
                   proposed, rejected, txBuf, rootStore>>

\* Stop returns nil (line 267).
StopReturns ==
    /\ pc = "stopping"
    /\ ret.at > Len(StopOrder)
    /\ ret' = [ret EXCEPT !.err = Nil]
    /\ pc' = "returned"
    /\ UNCHANGED <<curH, curR, signerPubKey, bdrCache, inflight, now, entered, deferred,
                   proposed, rejected, txBuf, rootStore, component>>

\* The goroutines of the engine and of the driver, which run under the root context,
\* finish once it is cancelled; those of the HTTP server once its listener is closed.
PartFinishes ==
    /\ \E part \in {"e", "driver", "httpServer"} :
         /\ component[part] = "up"
         /\ IF part = "httpServer" THEN component.httpLn = "closed" ELSE component.cancelled
         /\ component' = [component EXCEPT ![part] = "done"]
    /\ UNCHANGED <<curH, curR, signerPubKey, bdrCache, inflight, now, entered, deferred,
                   proposed, rejected, txBuf, rootStore, pc, ret>>

(***************************************************************************)
(* The root store of the vendored SDK, with the patch that guards the two  *)
(* Close calls (store/v2/root/store.go).                                   *)
(***************************************************************************)
\* The most calls of Close in a run.
MaxCloses == 3

\* root.New: the storage, the commitment and the closer of the database are set;
\* results holds what the calls of Close have returned, in order.
NewStore ==
    [stateStorage |-> "open", stateCommitment |-> "open", lastCommitInfo |-> "set",
     dbCloses |-> 0, results |-> <<>>]

\* What s.dbCloser.Close() does on its n-th call: the first returns nil or an error;
\* io.Closer leaves a later call undefined, and it returns nil, returns an error or
\* panics.
DBCloserOutcomes(n) == IF n = 1 THEN {"nil", "err"} ELSE {"nil", "err", "panic"}

\* if s.stateStorage != nil, if s.stateCommitment != nil
NotNil(field) == field # "nil"

\* The calls of Close on the storage and on the commitment, with their errors.
GuardedCloses(st, ssErr, scErr) ==
    (IF NotNil(st.stateStorage)
     THEN <<[fn |-> "stateStorage.Close", err |-> ssErr, onNil |-> st.stateStorage = "nil"]>>
     ELSE <<>>)
    \o (IF NotNil(st.stateCommitment)
        THEN <<[fn |-> "stateCommitment.Close", err |-> scErr,
                onNil |-> st.stateCommitment = "nil"]>>
        ELSE <<>>)

\* The call of s.dbCloser.Close() that returns dbOut.
DBCloserCall(dbOut) == [fn |-> "dbCloser.Close", err |-> dbOut = "err", onNil |-> FALSE]

\* errors.Join of the errors of the calls: the calls that failed, in order; empty
\* for the nil error.
JoinedErr(calls) ==
    LET failed == SelectSeq(calls, LAMBDA c : c.err)
    IN  [i \in 1..Len(failed) |-> failed[i].fn]

\* The call that has made calls and ends with the error err.
CloseCall(st, calls, err) ==
    [op |-> "Close", before |-> st, calls |-> calls, joined |-> JoinedErr(calls),
     err |-> err]

\* Close returns after the calls: the fields are reset and the joined error is
\* returned.
CloseReturns(st, calls) ==
    /\ ret' = CloseCall(st, calls, IF JoinedErr(calls) = <<>> THEN Nil ELSE "err")
    /\ pc' = "returned"
    /\ rootStore' = [st EXCEPT !.stateStorage = "nil", !.stateCommitment = "nil",
                               !.lastCommitInfo = "nil", !.dbCloses = @ + 1,
                               !.results = Append(@, JoinedErr(calls))]

\* Close with the calls made on the storage and on the commitment and the outcome
\* of s.dbCloser.Close(): a call on nil panics, and so does the closer when it
\* panics; otherwise Close returns.
Closes(st, calls, dbOut) ==
    IF \E i \in 1..Len(calls) : calls[i].onNil
    THEN /\ ret' = CloseCall(st, calls, "nilDeref")
         /\ pc' = "panicked"
         /\ UNCHANGED rootStore
    ELSE IF dbOut = "panic"
    THEN /\ ret' = CloseCall(st, Append(calls, DBCloserCall(dbOut)), "panic")
         /\ pc' = "panicked"
         /\ rootStore' = [st EXCEPT !.dbCloses = @ + 1]
    ELSE CloseReturns(st, Append(calls, DBCloserCall(dbOut)))

\* Store.Close
StoreClose ==
    /\ pc = "idle"
    /\ Len(rootStore.results) < MaxCloses
    /\ \E ssErr \in BOOLEAN, scErr \in BOOLEAN,
          dbOut \in DBCloserOutcomes(rootStore.dbCloses + 1) :
         Closes(rootStore, GuardedCloses(rootStore, ssErr, scErr), dbOut)
    /\ UNCHANGED <<curH, curR, signerPubKey, bdrCache, inflight, now, entered, deferred,
                   proposed, rejected, txBuf, component>>

(***************************************************************************)
(* The debug endpoints of the gRPC server (package ggrpc).                 *)
(***************************************************************************)
\* The most transactions the buffer holds in the runs.
MaxBuffered == 3

\* The bodies of the requests: the JSON text of a transaction, or text that is none.
TxRequests ==
    {<<"{", "a", "}">>, <<"{", "b", "}">>, <<"{", "x", "}">>, <<"{", "a">>, <<>>}

\* g.txc.DecodeJSON(b)
DecodeJSON(b) ==
    IF Len(b) = 3 /\ b[1] = "{" /\ b[3] = "}" /\ b[2] \in Txs
    THEN [ok |-> TRUE, tx |-> b[2]]
    ELSE [ok |-> FALSE, tx |-> "none"]

\* g.am.ValidateTx(ctx, tx): stateErr when the state cannot be read; the checks that
\* precede execution reject "x" only.
ValidateTx(tx, stateErr) == [err |-> stateErr, resError |-> tx \notin {"a", "b"}]

\* No response: the nil *TxResultResponse.
NilResponse == [nil |-> TRUE, Error |-> ""]

\* &TxResultResponse{Error: text}; the empty text when there is no error.
TxResultResponse(text) == [nil |-> FALSE, Error |-> text]

\* getGordianResponseFromSDKResult(res): evErr when the events cannot be converted.
getGordianResponseFromSDKResult(res, evErr) ==
    IF evErr THEN TxResultResponse("events")
    ELSE TxResultResponse(IF res.resError THEN "result" ELSE "")

\* The call of an endpoint with the body b, when the buffer holds buf, before it has
\* done anything.
GRPCCall(op, b, buf) ==
    [op |-> op, req |-> b, buf |-> buf, decoded |-> FALSE, tx |-> "none",
     validated |-> <<>>, simulated |-> <<>>, added |-> <<>>,
     resp |-> NilResponse, err |-> Nil]

\* The error of the validation result is not looked at.
SubmitValidatedAddsInvalid(call, res, addOk, evErr) ==
    IF res.err
    THEN /\ ret' = [call EXCEPT !.validated = <<res>>, !.err = "validate"]
         /\ UNCHANGED txBuf
    ELSE IF ~addOk
    THEN /\ ret' = [call EXCEPT !.validated = <<res>>, !.added = <<call.tx>>, !.err = "add"]
         /\ UNCHANGED txBuf
    ELSE /\ ret' = [call EXCEPT !.validated = <<res>>, !.added = <<call.tx>>,
                                !.resp = getGordianResponseFromSDKResult(res, evErr)]
         /\ txBuf' = Append(txBuf, call.tx)

\* SubmitTransaction once ValidateTx has returned res (lines 27-49); addOk when AddTx
\* accepts the transaction.
SubmitValidated(call, res, addOk, evErr) ==
    IF res.err
    THEN /\ ret' = [call EXCEPT !.validated = <<res>>, !.err = "validate"]
         /\ UNCHANGED txBuf
    ELSE IF res.resError
    THEN /\ ret' = [call EXCEPT !.validated = <<res>>, !.resp = TxResultResponse("validate")]
         /\ UNCHANGED txBuf
    ELSE IF ~addOk
    THEN /\ ret' = [call EXCEPT !.validated = <<res>>, !.added = <<call.tx>>, !.err = "add"]
         /\ UNCHANGED txBuf
    ELSE /\ ret' = [call EXCEPT !.validated = <<res>>, !.added = <<call.tx>>,
                                !.resp = getGordianResponseFromSDKResult(res, evErr)]
         /\ txBuf' = Append(txBuf, call.tx)

\* SubmitTransaction once DecodeJSON has returned dec (lines 20-49).
SubmitDecoded(call, dec, stateErr, addOk, evErr) ==
    IF ~dec.ok
    THEN /\ ret' = [call EXCEPT !.resp = TxResultResponse("decode")]
         /\ UNCHANGED txBuf
    ELSE SubmitValidated([call EXCEPT !.decoded = TRUE, !.tx = dec.tx],
                         ValidateTx(dec.tx, stateErr), addOk, evErr)

\* GordianGRPC.SubmitTransaction
SubmitTransaction ==
    /\ pc = "idle"
    /\ Len(txBuf) < MaxBuffered
    /\ \E b \in TxRequests, stateErr \in BOOLEAN, addOk \in BOOLEAN, evErr \in BOOLEAN :
         SubmitDecoded(GRPCCall("SubmitTransaction", b, txBuf), DecodeJSON(b),
                       stateErr, addOk, evErr)
    /\ pc' = "returned"
    /\ UNCHANGED <<curH, curR, signerPubKey, bdrCache, inflight, now, entered, deferred,
                   proposed, rejected, component, rootStore>>

\* SimulateTransaction once Simulate has returned res (lines 62-77).
SimulateReturned(call, res, evErr) ==
    IF res.err
    THEN [call EXCEPT !.simulated = <<res>>, !.err = "simulate"]
    ELSE IF res.resError
    THEN [call EXCEPT !.simulated = <<res>>, !.resp = TxResultResponse("simulate")]
    ELSE [call EXCEPT !.simulated = <<res>>,
                      !.resp = getGordianResponseFromSDKResult(res, evErr)]

\* SimulateTransaction once DecodeJSON has returned dec (lines 56-77).
SimulateDecoded(call, dec, errTx, evErr) ==
    IF ~dec.ok
    THEN [call EXCEPT !.resp = TxResultResponse("decode")]
    ELSE SimulateReturned([call EXCEPT !.decoded = TRUE, !.tx = dec.tx],
                          Simulate(dec.tx, errTx), evErr)

\* GordianGRPC.SimulateTransaction
SimulateTransaction ==
    /\ pc = "idle"
    /\ \E b \in TxRequests, errTx \in ErrTxInputs, evErr \in BOOLEAN :
         ret' = SimulateDecoded(GRPCCall("SimulateTransaction", b, txBuf), DecodeJSON(b),
                                errTx, evErr)
    /\ pc' = "returned"
    /\ UNCHANGED <<curH, curR, signerPubKey, bdrCache, inflight, now, entered, deferred,
                   proposed, rejected, txBuf, component, rootStore>>

(***************************************************************************)
(* Specifications.                                                         *)
(***************************************************************************)
\* NewConsensusStrategy with the signer key given.
InitWith(key) ==
    /\ curH = 0
    /\ curR = 0
    /\ signerPubKey = key
    /\ bdrCache = EmptyCache
    /\ inflight = {}
    /\ now = 0
    /\ pc = "idle"
    /\ ret = NoCall
    /\ entered = [h |-> 0, r |-> 0]
    /\ deferred = {}
    /\ proposed = {}
    /\ rejected = {}
    /\ txBuf = <<>>
    /\ component = NewComponent
    /\ rootStore = NewStore

\* A node whose key is not in the validator set: it never proposes.
ObserverKey == "C"

ConsiderProposedBlocks == ConsiderProposedBlocksOn(PhsInputs)

ChooseProposedBlock == ChooseProposedBlockOn(HeaderLists(MaxChoosePhs))

Init == InitWith(ObserverKey)

Next ==
    \/ EnterRound
    \/ ConsiderProposedBlocks
    \/ ChooseProposedBlock
    \/ DecidePrecommit
    \/ Return
    \/ Tick
    \/ RetrievalCompletes

\* The strategy of a node that does not propose, on every list of headers.
Spec == Init /\ [][Next]_vars

InitPropose == InitWith("B")

NextPropose ==
    \/ EnterRound
    \/ CancelContext
    \/ EngineReceives
    \/ ContextCancelled
    \/ ConsiderProposedBlocksOn(OwnPhsInputs)
    \/ ChooseProposedBlockOn(OwnPhsInputs)
    \/ DecidePrecommit
    \/ Return
    \/ Tick
    \/ RetrievalCompletes

\* The strategy of validator B, on the headers that carry its own data.
SpecPropose == InitPropose /\ [][NextPropose]_vars

\* The same, where a send whose context is done does return: the select of
\* gchan.SendC is woken by the closed ctx.Done() channel.
SpecHandoff == InitPropose /\ [][NextPropose]_vars /\ WF_vars(ContextCancelled)

\* DecidePrecommit alone, on every vote summary of available power up to MaxPower.
NextPrecommit ==
    \/ DecidePrecommitOn(MaxPower)
    \/ Return

SpecPrecommit == Init /\ [][NextPrecommit]_vars

\* The proposer selector alone, on every height and round.
NextSelection ==
    \/ SelectProposer
    \/ Return

SpecSelection == Init /\ [][NextSelection]_vars

\* The data check of a candidate against the background retrievals, step by step.
NextRetrieval ==
    \/ GetsRequest
    \/ SelectsReady
    \/ ReadsTransactions
    \/ Return
    \/ RetrievalWrites
    \/ RetrievalCompletes
    \/ RetrievalCancelled
    \/ WaitCalled
    \/ WaitReturns

SpecRetrieval == Init /\ [][NextRetrieval]_vars

\* The identifier codec alone.
NextCodec ==
    \/ EncodesAndParses
    \/ Return

SpecCodec == Init /\ [][NextCodec]_vars

\* The two validators of the scenario, each running its own strategy: a behaviour
\* is that of validator A or that of validator B.
InitScenario == \E key \in {"A", "B"} : InitWith(key)

NextScenario ==
    \/ ScenarioEnterRound
    \/ CancelContext
    \/ EngineReceives
    \/ ContextCancelled
    \/ ConsiderProposedBlocksOn(ScenarioLists)
    \/ Return
    \/ Tick
    \/ RetrievalCompletes

SpecScenario == InitScenario /\ [][NextScenario]_vars

\* The scans of a node that does not propose, with the history of the headers they
\* rejected.
NextRescan ==
    \/ EnterRound
    \/ ConsiderProposedBlocksNoting(HeaderLists(MaxChoosePhs))
    \/ Return
    \/ Tick
    \/ RetrievalCompletes

SpecRescan == Init /\ [][NextRescan]_vars

\* The debug endpoints, called one after the other.
NextGRPC ==
    \/ SubmitTransaction
    \/ SimulateTransaction
    \/ Return

SpecGRPC == Init /\ [][NextGRPC]_vars

\* The life of the component: Init, Start and Stop, each at most as the server module
\* calls them, and the goroutines of its parts.
NextComponent ==
    \/ ComponentInit
    \/ ComponentStart
    \/ StopCancels
    \/ StopStep
    \/ StopReturns
    \/ PartFinishes
    \/ Return

SpecComponent == Init /\ [][NextComponent]_vars

\* The root store, closed again and again.
NextStore ==
    \/ StoreClose
    \/ Return

SpecStore == Init /\ [][NextStore]_vars

InitNoSigner == InitWith(NilKey)

NextNoSigner ==
    \/ EnterRound
    \/ ConsiderProposedBlocksOn(HeaderLists(MaxChoosePhs))
    \/ ChooseProposedBlock
    \/ DecidePrecommit
    \/ Return
    \/ Tick
    \/ RetrievalCompletes

\* The strategy of a node that holds no signing key.
SpecNoSigner == InitNoSigner /\ [][NextNoSigner]_vars

(***************************************************************************)
(* Properties of ConsiderProposedBlocks.                                   *)
(* They read the returned call: its headers ret.phs, the evaluations      *)
(* ret.evals it made in order (outcome, simulation calls, Retrieve calls), *)
(* the cache ret.cache it ran on and the clock readings ret.times, one per  *)
(* candidate.                                                              *)
(***************************************************************************)
Considered == ret.op = "ConsiderProposedBlocks"

Accepted == Considered /\ ret.err = Nil

\* The transactions before position i of a batch: what a chained simulation has applied.
Applied(txs, i) == CommittedState \cup {txs[k] : k \in 1..(i - 1)}

\* Every transaction of the batch can be simulated and applies on the state its
\* predecessors leave.
ChainValid(txs, errTx) ==
    \A i \in 1..Len(txs) : txs[i] # errTx /\ ~TxResultError(Applied(txs, i), txs[i])

\* The header and its data ID both name the round (h, r).
NamesRound(ph, h, r) ==
    /\ ph.Height = h
    /\ ph.Round = r
    /\ ParsedDataID[ph.DataID].ok
    /\ ParsedDataID[ph.DataID].h = h
    /\ ParsedDataID[ph.DataID].r = r

\* The data of the header is not needed, or is ready in the cache and valid.
DataPasses(ph, cache, errTx) ==
    \/ ParsedDataID[ph.DataID].nTxs = 0
    \/ /\ ph.DataID \in DOMAIN cache
       /\ cache[ph.DataID].ready
       /\ ChainValid(cache[ph.DataID].txs, errTx)

\* The block annotation decodes to a time.
AnnotationDecodes(ph) == DecodedAnn[ph.BlockAnn].ba.ok /\ DecodedAnn[ph.BlockAnn].bt.ok

ClaimedTime(ph) == DecodedAnn[ph.BlockAnn].bt.t

\* Candidate j passes every check of the scan at the time it is evaluated.
PassesChecks(j) ==
    /\ NamesRound(ret.phs[j], curH, curR)
    /\ DataPasses(ret.phs[j], ret.cache, ret.errTx)
    /\ AnnotationDecodes(ret.phs[j])
    /\ ClaimedTime(ret.phs[j]) <= ret.times[j]

\* The scan went on after candidate j, when there is a next candidate.
ScanContinuesAfter(j) == j < Len(ret.phs) => Len(ret.evals) > j

\* C1: the candidates are evaluated in list order; the call returns the hash of the
\* lowest-index candidate that passes every check, evaluates no candidate after it,
\* and a returned hash is the hash of a header of the list.
C1_FirstAcceptableWins ==
    Considered =>
        /\ Len(ret.evals) <= Len(ret.phs)
        /\ \A j \in 1..Len(ret.phs) :
             (PassesChecks(j) /\ \A k \in 1..(j - 1) : ~PassesChecks(k))
                => /\ ret.err = Nil
                   /\ ret.hash = ret.phs[j].Hash
                   /\ Len(ret.evals) = j
        /\ ret.err = Nil =>
             /\ \E j \in 1..Len(ret.phs) : ret.hash = ret.phs[j].Hash
             /\ PassesChecks(Len(ret.evals))
             /\ ret.hash = ret.phs[Len(ret.evals)].Hash

\* C1 witness: a list whose second candidate also passes, and the first one is returned.
C1_Witness ==
    /\ Accepted
    /\ Len(ret.phs) = 2
    /\ PassesChecks(1)
    /\ PassesChecks(2)
    /\ ret.phs[1].Hash # ret.phs[2].Hash
    /\ ret.hash = ret.phs[1].Hash

\* The state a simulation call returns.
StateAfter(call) == call.state \cup {call.tx}

\* C2: a candidate with nTxs # 0 is accepted only if every transaction of the cached
\* batch was simulated without state-access error and without validity error, the
\* first by Simulate on the committed state and each later one, in batch order, by
\* SimulateWithState on the state the simulation before it returned.
C2_AcceptedBatchFullySimulated ==
    (Accepted /\ ParsedDataID[ret.phs[Len(ret.evals)].DataID].nTxs # 0) =>
        LET ph == ret.phs[Len(ret.evals)]
            txs == ret.cache[ph.DataID].txs
            sims == ret.evals[Len(ret.evals)].sims
        IN  /\ Len(sims) = Len(txs)
            /\ Len(sims) >= 1
            /\ \A i \in 1..Len(sims) :
                 /\ sims[i].tx = txs[i]
                 /\ ~sims[i].err
                 /\ ~sims[i].resError
                 /\ i = 1 => sims[i].fn = "Simulate" /\ sims[i].state = CommittedState
                 /\ i > 1 => /\ sims[i].fn = "SimulateWithState"
                             /\ sims[i].state = StateAfter(sims[i - 1])

\* C2 witness: an accepted candidate whose batch holds two chained transactions.
C2_Witness ==
    /\ Accepted
    /\ Len(ret.evals[Len(ret.evals)].sims) = 2
    /\ ret.evals[Len(ret.evals)].sims[2].tx = "b"

SimFailedAt(sims, i) == sims[i].err \/ sims[i].resError

\* C3: the first simulation failure in a candidate's batch, at any position and of
\* either kind, ends the candidate: no later transaction is simulated, the candidate
\* is not accepted, the scan goes on with the next candidate, and a later candidate
\* that passes every check is accepted.
C3_SimulationFailureSkipsCandidate ==
    Considered =>
        \A j \in 1..Len(ret.evals) :
            LET sims == ret.evals[j].sims
            IN  \A i \in 1..Len(sims) :
                    SimFailedAt(sims, i) =>
                        /\ Len(sims) = i
                        /\ ret.evals[j].outcome = "simFailed"
                        /\ ~(ret.err = Nil /\ Len(ret.evals) = j)
                        /\ ScanContinuesAfter(j)
                        /\ (\E k \in (j + 1)..Len(ret.phs) : PassesChecks(k))
                              => ret.err = Nil

\* C3 witness: a three-transaction batch fails at its second transaction and the
\* candidate after it is accepted.
C3_Witness ==
    /\ Accepted
    /\ Len(ret.evals) = 2
    /\ ret.phs[1].DataID \in DOMAIN ret.cache
    /\ Len(ret.cache[ret.phs[1].DataID].txs) = 3
    /\ Len(ret.evals[1].sims) = 2
    /\ ret.evals[1].sims[2].resError
    /\ ret.hash = ret.phs[2].Hash

\* Candidate j was evaluated and is the one the call accepted.
AcceptedAt(j) == Accepted /\ Len(ret.evals) = j

\* The header of candidate j names the round of the most recent EnterRound call.
HeaderOfEnteredRound(j) ==
    ret.phs[j].Height = entered.h /\ ret.phs[j].Round = entered.r

\* C6: after EnterRound calls, the hash returned is never that of a header whose
\* height or round differs from those of the most recent EnterRound call: such a
\* candidate is skipped and the scan continues.
C6_OnlyHeadersOfEnteredRound ==
    Considered =>
        /\ \A j \in 1..Len(ret.evals) :
             ~HeaderOfEnteredRound(j) =>
                 /\ ret.evals[j].outcome = "headerRound"
                 /\ ~AcceptedAt(j)
                 /\ ScanContinuesAfter(j)
        /\ \A j \in 1..Len(ret.phs) :
             (ret.err = Nil /\ ret.hash = ret.phs[j].Hash) => HeaderOfEnteredRound(j)

\* C6 witness: after an EnterRound call, a header of another round is skipped and
\* the header after it, of the entered round, is returned.
C6_Witness ==
    /\ Accepted
    /\ entered.h = 1
    /\ Len(ret.evals) = 2
    /\ ret.phs[1].Round # entered.r
    /\ ret.evals[1].outcome = "headerRound"
    /\ ret.hash = ret.phs[2].Hash

\* The header of candidate j names the current round and its data ID parses, but
\* to another height or round.
ForeignDataID(j) ==
    /\ ret.phs[j].Height = curH
    /\ ret.phs[j].Round = curR
    /\ ParsedDataID[ret.phs[j].DataID].ok
    /\ \/ ParsedDataID[ret.phs[j].DataID].h # curH
       \/ ParsedDataID[ret.phs[j].DataID].r # curR

\* C7: a candidate whose data ID encodes another height or round than the current
\* round context is never accepted, also when its header names the current round.
C7_DataIDOfCurrentRound ==
    Considered =>
        /\ \A j \in 1..Len(ret.evals) :
             ForeignDataID(j) => ret.evals[j].outcome = "idRound" /\ ~AcceptedAt(j)
        /\ Accepted =>
             /\ ParsedDataID[ret.phs[Len(ret.evals)].DataID].h = curH
             /\ ParsedDataID[ret.phs[Len(ret.evals)].DataID].r = curR

\* C7 witness: a header of the current round (1, 1) carries a data ID of round
\* (1, 0) and is skipped for it.
C7_Witness ==
    /\ Considered
    /\ curH = 1
    /\ curR = 1
    /\ Len(ret.evals) >= 1
    /\ ForeignDataID(1)
    /\ ParsedDataID[ret.phs[1].DataID].h = curH
    /\ ret.evals[1].outcome = "idRound"
    /\ ret.err = ErrProposedBlockChoiceNotReady

\* Candidate j passes every check but the one on its claimed time.
PassesOtherChecks(j) ==
    /\ NamesRound(ret.phs[j], curH, curR)
    /\ DataPasses(ret.phs[j], ret.cache, ret.errTx)
    /\ AnnotationDecodes(ret.phs[j])

\* C8: a candidate whose block annotation claims a time strictly after the clock
\* reading of its evaluation is never accepted, even if every other check passes;
\* a claimed time equal to that reading is not rejected.
C8_NoFutureProposalTime ==
    Considered =>
        \A j \in 1..Len(ret.evals) :
            /\ (AnnotationDecodes(ret.phs[j]) /\ ClaimedTime(ret.phs[j]) > ret.times[j])
                 => ~AcceptedAt(j)
            /\ (PassesOtherChecks(j) /\ ClaimedTime(ret.phs[j]) > ret.times[j])
                 => ret.evals[j].outcome = "future"
            /\ (PassesOtherChecks(j) /\ ClaimedTime(ret.phs[j]) = ret.times[j])
                 => AcceptedAt(j)

\* C8 witness: a candidate that passes every other check claims a time after the
\* clock reading and is skipped; then the clock reaches the claimed time and the
\* same header, evaluated again, is accepted.
C8_Witness ==
    /\ Accepted
    /\ Len(ret.evals) = 2
    /\ ret.phs[1] = ret.phs[2]
    /\ PassesOtherChecks(1)
    /\ ClaimedTime(ret.phs[1]) > ret.times[1]
    /\ ret.evals[1].outcome = "future"
    /\ ClaimedTime(ret.phs[2]) = ret.times[2]

\* Candidate j names the round context, has transactions and a valid annotation
\* whose time is not in the future.
AwaitsData(j) ==
    /\ NamesRound(ret.phs[j], curH, curR)
    /\ ParsedDataID[ret.phs[j].DataID].nTxs # 0
    /\ AnnotationDecodes(ret.phs[j])
    /\ ClaimedTime(ret.phs[j]) <= ret.times[j]

\* The cache of the call holds a ready record for candidate j whose transactions
\* simulate successfully.
ReadyAndValid(j) ==
    /\ ret.phs[j].DataID \in DOMAIN ret.cache
    /\ ret.cache[ret.phs[j].DataID].ready
    /\ ChainValid(ret.cache[ret.phs[j].DataID].txs, ret.errTx)

\* C9: a candidate with transactions that names the round context and has a valid
\* non-future annotation is deferred by a call made while its data ID is absent
\* from the cache: it is not accepted, the call answers "not ready" when no other
\* candidate passes, and the header is kept as deferred, not rejected. A call made
\* once the cache holds a ready record with a valid transaction sequence accepts it.
C9_DeferredThenAccepted ==
    Considered =>
        \A j \in 1..Len(ret.evals) :
            AwaitsData(j) =>
                /\ ret.phs[j].DataID \notin DOMAIN ret.cache =>
                     /\ ret.evals[j].outcome \in {"absent", "pending"}
                     /\ ~AcceptedAt(j)
                     /\ ret.phs[j].Hash \in deferred
                     /\ (\A k \in 1..Len(ret.phs) : ~PassesChecks(k)) =>
                          (ret.err = ErrProposedBlockChoiceNotReady /\ ret.hash = "")
                /\ ReadyAndValid(j) => AcceptedAt(j)

\* C9 witness: a header deferred by an earlier call of the same round is accepted
\* by a call that finds its batch of two transactions ready.
C9_Witness ==
    /\ Accepted
    /\ AwaitsData(Len(ret.evals))
    /\ ReadyAndValid(Len(ret.evals))
    /\ ret.hash \in deferred
    /\ Len(ret.evals[Len(ret.evals)].sims) = 2

\* The data ID of candidate j is absent from the cache when j is evaluated: the
\* cache of the call did not hold it and no earlier candidate had it retrieved.
AbsentAt(j) ==
    /\ ret.phs[j].DataID \notin DOMAIN ret.cache
    /\ \A k \in 1..(j - 1) :
         \A i \in 1..Len(ret.evals[k].retr) :
            ret.evals[k].retr[i].id = ret.phs[j].DataID => ret.evals[k].retr[i].err

\* C10: for a candidate with transactions whose data ID is absent from the cache,
\* the call makes exactly one Retrieve call, with the candidate's data ID and the
\* proposal's driver annotation, simulates nothing, does not accept the candidate
\* and goes on with the next one.
C10_AbsentDataIsRetrievedOnce ==
    Considered =>
        \A j \in 1..Len(ret.evals) :
            (NamesRound(ret.phs[j], curH, curR)
               /\ ParsedDataID[ret.phs[j].DataID].nTxs # 0 /\ AbsentAt(j)) =>
                /\ Len(ret.evals[j].retr) = 1
                /\ ret.evals[j].retr[1].id = ret.phs[j].DataID
                /\ ret.evals[j].retr[1].pda = ret.phs[j].PropAnn
                /\ ret.evals[j].sims = <<>>
                /\ ~AcceptedAt(j)
                /\ ScanContinuesAfter(j)

\* C10 witness: the first candidate is absent from the cache, one retrieval with
\* its own annotation is started, and the scan evaluates the second candidate.
C10_Witness ==
    /\ Considered
    /\ Len(ret.evals) = 2
    /\ NamesRound(ret.phs[1], curH, curR)
    /\ AbsentAt(1)
    /\ Len(ret.evals[1].retr) = 1
    /\ ret.evals[1].retr[1].pda = ret.phs[1].PropAnn
    /\ ret.phs[1].PropAnn # ret.phs[1].BlockAnn
    /\ ret.evals[2].outcome = "accept"

\* The data ID of candidate j is in the cache, not ready, when j is evaluated: the
\* cache of the call held it so, or an earlier candidate had it retrieved.
PendingAt(j) ==
    /\ NamesRound(ret.phs[j], curH, curR)
    /\ ParsedDataID[ret.phs[j].DataID].nTxs # 0
    /\ IF ret.phs[j].DataID \in DOMAIN ret.cache
       THEN ~ret.cache[ret.phs[j].DataID].ready
       ELSE ~AbsentAt(j)

\* C11: for a candidate whose data ID is in the cache with a record that is not
\* ready, the call moves on to the next candidate: no Retrieve call, no simulation
\* of the record's transactions, no acceptance.
C11_PendingRecordIsSkipped ==
    Considered =>
        \A j \in 1..Len(ret.evals) :
            PendingAt(j) =>
                /\ ret.evals[j].outcome = "pending"
                /\ ret.evals[j].retr = <<>>
                /\ ret.evals[j].sims = <<>>
                /\ ~AcceptedAt(j)
                /\ ScanContinuesAfter(j)

\* C11 witness: the first candidate's record was left pending by an earlier call;
\* it is skipped without a Retrieve call and the second candidate is evaluated.
C11_Witness ==
    /\ Considered
    /\ Len(ret.evals) = 2
    /\ ret.phs[1].DataID \in DOMAIN ret.cache
    /\ PendingAt(1)
    /\ ret.evals[1].outcome = "pending"
    /\ ret.evals[1].retr = <<>>
    /\ ret.evals[2].outcome = "accept"

\* Some candidate of the list was accepted by the scan.
SomeAccepted == \E j \in 1..Len(ret.evals) : ret.evals[j].outcome = "accept"

\* C12: the call returns the empty hash with ErrProposedBlockChoiceNotReady exactly
\* when no candidate of the list is accepted, the empty list and a list of rejected
\* candidates included; it returns no other error, and no hash with an error.
C12_NotReadyIffNoneAccepted ==
    Considered =>
        /\ ret.err \in {Nil, ErrProposedBlockChoiceNotReady}
        /\ ret.err = ErrProposedBlockChoiceNotReady <=> ~SomeAccepted
        /\ ret.err = ErrProposedBlockChoiceNotReady <=>
             \A j \in 1..Len(ret.phs) : ~PassesChecks(j)
        /\ ret.err # Nil => ret.hash = ""
        /\ ret.err = Nil => ret.hash # ""
        /\ ret.phs = <<>> => ret.err = ErrProposedBlockChoiceNotReady

\* C12 witness: every candidate of the list is rejected, none deferred, and the call
\* answers "not ready".
C12_Witness ==
    /\ Considered
    /\ Len(ret.evals) = 2
    /\ \A j \in 1..2 : ret.evals[j].outcome \in {"unparseable", "annDecode", "idRound"}
    /\ ret.err = ErrProposedBlockChoiceNotReady
    /\ ret.hash = ""

Chosen == ret.op = "ChooseProposedBlock"

\* C13: ChooseProposedBlock returns the empty hash and no error when its
\* ConsiderProposedBlocks call on the same list and state reports "not ready", the
\* same hash and no error when that call accepts a candidate, and any other error
\* unchanged with the empty hash.
C13_ChooseAdaptsConsider ==
    Chosen =>
        /\ ret.inner.err = ErrProposedBlockChoiceNotReady => (ret.hash = "" /\ ret.err = Nil)
        /\ ret.inner.err = Nil => (ret.hash = ret.inner.hash /\ ret.err = Nil)
        /\ ret.inner.err \notin {Nil, ErrProposedBlockChoiceNotReady}
             => (ret.hash = "" /\ ret.err = ret.inner.err)
        /\ SomeAccepted => (ret.hash = ret.phs[Len(ret.evals)].Hash /\ ret.err = Nil)
        /\ ~SomeAccepted => (ret.hash = "" /\ ret.err = Nil)
        /\ (\E j \in 1..Len(ret.phs) : PassesChecks(j)) <=> ret.hash # ""

\* C13 witness: the scan defers its only candidate, ConsiderProposedBlocks reports
\* "not ready" and ChooseProposedBlock returns no choice and no error.
C13_Witness ==
    /\ Chosen
    /\ Len(ret.evals) = 1
    /\ ret.evals[1].outcome = "absent"
    /\ ret.inner.err = ErrProposedBlockChoiceNotReady
    /\ ret.hash = ""
    /\ ret.err = Nil

(***************************************************************************)
(* Properties of DecidePrecommit.                                          *)
(***************************************************************************)
Decided == ret.op = "DecidePrecommit"

\* The prevote power the summary of the call holds for the hash.
PowerOf(hash) == PrevotePower(ret.vs, hash)

\* C4: DecidePrecommit returns the most-prevoted hash when its prevote power is at
\* least the Byzantine majority of the available power, else the empty value, and
\* never an error; of 100, a power of 67 is precommitted and a power of 66 is not.
C4_PrecommitAtMajority ==
    Decided =>
        /\ ret.err = Nil
        /\ PowerOf(ret.vs.MostVotedPrevoteHash) >= ByzantineMajority(ret.vs.AvailablePower)
             => ret.hash = ret.vs.MostVotedPrevoteHash
        /\ PowerOf(ret.vs.MostVotedPrevoteHash) < ByzantineMajority(ret.vs.AvailablePower)
             => ret.hash = ""
        /\ (ret.vs.AvailablePower = 100 /\ PowerOf(ret.vs.MostVotedPrevoteHash) = 67)
             => ret.hash = ret.vs.MostVotedPrevoteHash
        /\ (ret.vs.AvailablePower = 100 /\ PowerOf(ret.vs.MostVotedPrevoteHash) = 66)
             => ret.hash = ""

\* C4 witness: of 100, a single candidate with power 67 is precommitted.
C4_Witness ==
    /\ Decided
    /\ ret.vs = VoteSummary(100, 67, 0)
    /\ ret.hash = "p1"

\* The summary of the call, as the validators behind the other block see it.
OtherSummary ==
    [ret.vs EXCEPT !.MostVotedPrevoteHash = CHOOSE k \in BlockHashes : k # ret.hash]

\* C5: a hash is precommitted only on strictly more than two thirds of the
\* available power, so the disjoint voters of another block cannot have it
\* precommitted within the same available power.
C5_StrictlyMoreThanTwoThirds ==
    (Decided /\ ret.hash # "") =>
        /\ 3 * PowerOf(ret.hash) > 2 * ret.vs.AvailablePower
        /\ PowerOf(ret.hash) + PowerOf(OtherSummary.MostVotedPrevoteHash)
             <= ret.vs.AvailablePower
        /\ DecidePrecommitResult(OtherSummary).hash = ""

\* C5 witness: a precommit at the smallest power above two thirds of 99, the rest
\* of the power being behind the other block.
C5_Witness ==
    /\ Decided
    /\ ret.vs = VoteSummary(99, 67, 32)
    /\ ret.hash = "p1"

(***************************************************************************)
(* Properties of EnterRound.                                               *)
(* They read the call ret: its round view ret.rv, whether the proposal      *)
(* destination was nil (ret.outNil), the validators ret.selected the        *)
(* selector returned, the number ret.buffered of mempool reads and the      *)
(* snapshot read, the Provide calls ret.provide, the proposal built and the *)
(* cache ret.cache the call started on.                                     *)
(***************************************************************************)
Entered == ret.op = "EnterRound"

\* The call recorded its round view as the round context.
RecordedRound == curH = ret.rv.Height /\ curR = ret.rv.Round

\* The call made no proposal: it read no mempool, called no Provide and left the
\* cache as it was.
NothingProposed ==
    /\ ret.proposal = NoCall
    /\ ret.buffered = 0
    /\ ret.provide = <<>>
    /\ bdrCache = ret.cache

\* The selector chose the local signing identity.
SelectedIsLocal == Len(ret.selected) = 1 /\ ret.selected[1].PubKey = signerPubKey

\* C14: when the validator the selector chose is not the local signing identity,
\* EnterRound stops after recording the round context: no proposal, no mempool
\* read, no Provide call, the cache unchanged, and nil returned; so a proposal is
\* handed to the engine only by the node the selector chose.
C14_OnlySelectedProposerProposes ==
    Entered =>
        /\ RecordedRound
        /\ ~SelectedIsLocal => (NothingProposed /\ pc = "returned" /\ ret.err = Nil)
        /\ ret.proposal # NoCall => SelectedIsLocal

\* C14 witness: validator B enters a round with a proposal destination in which the
\* selector chose A, and returns nil.
C14_Witness ==
    /\ Entered
    /\ signerPubKey = "B"
    /\ ret.selected[1].PubKey = "A"
    /\ ~ret.outNil
    /\ pc = "returned"
    /\ ret.err = Nil

\* C15: without a local signing identity EnterRound stops right after recording the
\* round context, for every round view and with or without a proposal destination:
\* the selector is not consulted, nothing is proposed, the process goes on and the
\* hook returns nil.
C15_NoSignerStopsAfterRecording ==
    (Entered /\ signerPubKey = NilKey) =>
        /\ RecordedRound
        /\ ret.selected = <<>>
        /\ NothingProposed
        /\ pc = "returned"
        /\ ret.err = Nil

\* The round view of the call holds a header proposed by the local identity.
OwnHeaderSeen ==
    \E i \in 1..Len(ret.rv.ProposedHeaders) :
        ret.rv.ProposedHeaders[i].ProposerPubKey = signerPubKey

\* C16: the selected proposer, given no proposal destination and a round view without
\* a header of its own, panics instead of returning, before any mempool read,
\* Provide call or change of the cache.
C16_MissingDestinationPanics ==
    /\ (Entered /\ SelectedIsLocal /\ ret.outNil /\ ~OwnHeaderSeen) =>
          (pc = "panicked" /\ NothingProposed)
    /\ pc = "panicked" =>
          (Entered /\ SelectedIsLocal /\ ret.outNil /\ ~OwnHeaderSeen /\ NothingProposed)

\* C16 witness: the round view holds a header, of another validator, and the call
\* panics.
C16_Witness ==
    /\ pc = "panicked"
    /\ Len(ret.rv.ProposedHeaders) = 1
    /\ ret.rv.ProposedHeaders[1].ProposerPubKey # signerPubKey
    /\ ret.buffered = 0

\* C17: the selected proposer, given no proposal destination and a round view that
\* already holds a header of its own, returns nil: no proposal, no mempool read, no
\* Provide call, the cache unchanged.
C17_RestartRecoveryReturnsNil ==
    (Entered /\ SelectedIsLocal /\ ret.outNil /\ OwnHeaderSeen) =>
        /\ pc = "returned"
        /\ ret.err = Nil
        /\ NothingProposed

\* C17 witness: the proposer's own header is in the round view and the call returns.
C17_Witness ==
    /\ Entered
    /\ SelectedIsLocal
    /\ ret.outNil
    /\ OwnHeaderSeen
    /\ pc = "returned"
    /\ ret.err = Nil

\* The proposer of the round read the mempool: it is selected and has a destination.
ProposerReadMempool == Entered /\ SelectedIsLocal /\ ~ret.outNil

\* C18: with a non-empty snapshot the proposer calls Provide exactly once, with the
\* current height and round and the snapshot's transactions in order; the proposal
\* carries the identifier Provide returned and a proposal annotation built from
\* the locations it returned.
C18_ProvideCalledOnceWithSnapshot ==
    (ProposerReadMempool /\ ret.snapshot # <<>>) =>
        /\ ret.buffered = 1
        /\ ret.provide = <<[h |-> curH, r |-> curR, txs |-> ret.snapshot]>>
        /\ ret.proposal # NoCall =>
             /\ ret.proposal.DataID = Provide(curH, curR, ret.snapshot).DataID
             /\ ParseDataID(ret.proposal.DataID).h = curH
             /\ ParseDataID(ret.proposal.DataID).r = curR
             /\ ParseDataID(ret.proposal.DataID).nTxs = Len(ret.snapshot)
             /\ ParseDataID(ret.proposal.DataID).hash = HashHex(ret.snapshot)
             /\ ret.proposal.PropAnn =
                  MarshalProposalDriverAnnotation(Provide(curH, curR, ret.snapshot).Addrs)

\* C18 witness: a snapshot of two transactions is provided once and the proposal
\* reaches the engine.
C18_Witness ==
    /\ Entered
    /\ ret.outcome = "sent"
    /\ ret.snapshot = <<"a", "b">>
    /\ Len(ret.provide) = 1
    /\ ParseDataID(ret.proposal.DataID).nTxs = 2

\* C19: with an empty snapshot the proposer makes no Provide call and proposes the
\* identifier "<height>:<round>" followed by the fixed suffix of the empty batch,
\* at every height and round, with no proposal annotation.
C19_EmptySnapshotCanonicalID ==
    (ProposerReadMempool /\ ret.snapshot = <<>>) =>
        /\ ret.buffered = 1
        /\ ret.provide = <<>>
        /\ ret.proposal # NoCall
        /\ ret.proposal.DataID = Dec(curH) \o <<":">> \o Dec(curR) \o zeroHashSuffix
        /\ ParseDataID(ret.proposal.DataID) =
             [ok |-> TRUE, h |-> curH, r |-> curR, nTxs |-> 0, dataLen |-> 0,
              hash |-> zeroHash]
        /\ ret.proposal.PropAnn = <<>>

\* C19 witness: an empty snapshot is proposed in a round other than round 0 and the
\* proposal reaches the engine.
C19_Witness ==
    /\ Entered
    /\ ret.outcome = "sent"
    /\ ret.buffered = 1
    /\ ret.snapshot = <<>>
    /\ curR = 1

\* The cache holds the proposed identifier, ready, with the proposed transactions
\* and their encoded bytes.
ProposedDataAvailable ==
    /\ ret.proposal.DataID \in DOMAIN bdrCache
    /\ bdrCache[ret.proposal.DataID].ready
    /\ bdrCache[ret.proposal.DataID].txs = ret.snapshot
    /\ bdrCache[ret.proposal.DataID].enc = EncodeTxs(ret.snapshot)

\* C20 as claimed: whenever a proposal is handed to the engine, its identifier is in
\* the cache and ready with the proposed transactions, for every snapshot.
C20_ProposedDataAlwaysAvailable ==
    (Entered /\ ret.proposal # NoCall) => ProposedDataAvailable

\* C20, amended: whenever a proposal built from a non-empty snapshot is handed to
\* the engine, its identifier is in the cache and ready with exactly the proposed
\* transactions and their encoded bytes; for the empty snapshot EnterRound makes
\* no record.
C20_ProposedBatchAvailable ==
    (Entered /\ ret.proposal # NoCall) =>
        /\ ret.snapshot # <<>> => ProposedDataAvailable
        /\ ret.snapshot = <<>> =>
             (ret.proposal.DataID \in DOMAIN bdrCache
                <=> ret.proposal.DataID \in DOMAIN ret.cache)

\* C20 witness: a proposal of two transactions is with the engine, and the cache,
\* which did not hold its identifier before the call, holds it ready.
C20_Witness ==
    /\ Entered
    /\ ret.outcome = "sent"
    /\ ret.snapshot = <<"a", "b">>
    /\ ret.proposal.DataID \notin DOMAIN ret.cache
    /\ ProposedDataAvailable

(***************************************************************************)
(* Properties of the proposer's own data, the handoff and the round        *)
(* context.                                                                *)
(***************************************************************************)
\* The call scanned a list of headers: ConsiderProposedBlocks, directly or through
\* ChooseProposedBlock.
Scanned == ret.op \in {"ConsiderProposedBlocks", "ChooseProposedBlock"}

\* C21: once an EnterRound call has built a proposal with data ID D, no scan of that
\* round calls Retrieve for D, whatever headers it is given: a header carrying D is
\* evaluated without any Retrieve call.
C21_OwnDataNeverRetrieved ==
    Scanned =>
        \A j \in 1..Len(ret.evals) :
            /\ \A i \in 1..Len(ret.evals[j].retr) : ret.evals[j].retr[i].id \notin proposed
            /\ ret.phs[j].DataID \in proposed => ret.evals[j].retr = <<>>

\* C21 witness: a scan of the round evaluates a header that carries the data ID of
\* the two transactions this process proposed, starts no retrieval and accepts it
\* after simulating the batch.
C21_Witness ==
    /\ Considered
    /\ Len(ret.evals) = 1
    /\ ret.phs[1].DataID \in proposed
    /\ ParsedDataID[ret.phs[1].DataID].nTxs = 2
    /\ NamesRound(ret.phs[1], curH, curR)
    /\ ret.evals[1].retr = <<>>
    /\ ret.evals[1].outcome = "accept"

\* The send of the proposal is blocked and the context of the call is done.
CancelledWhileSending == Entered /\ pc = "sending" /\ ret.ctxDone

\* The call that built a proposal has returned.
HandoffReturned == Entered /\ pc = "returned" /\ ret.proposal # NoCall

C23_ProvideFailureAbortsProposal ==
    (Entered /\ ret.provideErr) =>
        /\ pc = "returned"
        /\ ret.err # Nil
        /\ ret.proposal = NoCall
        /\ ~ret.delivered
        /\ bdrCache = ret.cache
        /\ proposed = {}

\* C23 witness: the selected proposer read two transactions from the mempool,
\* Provide was called with them and failed, and the call returned the error.
C23_Witness ==
    /\ Entered
    /\ ret.provideErr
    /\ ret.snapshot = <<"a", "b">>
    /\ Len(ret.provide) = 1
    /\ ret.err = "provide"
    /\ DataID(curH, curR, ret.snapshot) \notin DOMAIN bdrCache

\* C24: in every state the round context is the height and round of the round view
\* of the most recent EnterRound call, whatever the outcome of that call, and so is
\* unchanged by every other hook; a call of EnterRound records those of its own
\* round view.
C24_RoundContextIsLastEnteredRound ==
    /\ curH = entered.h
    /\ curR = entered.r
    /\ Entered => (entered.h = ret.rv.Height /\ entered.r = ret.rv.Round)

\* C24 witness: after an EnterRound call of height 2, round 1, a scan of a list
\* whose header is of height 1, round 0 has returned and the round context is
\* still height 2, round 1.
C24_Witness ==
    /\ Scanned
    /\ Len(ret.evals) = 1
    /\ ret.phs[1].Height = 1
    /\ ret.phs[1].Round = 0
    /\ entered = [h |-> 2, r |-> 1]
    /\ curH = 2
    /\ curR = 1

(***************************************************************************)
(* Properties of DefaultProposerSelection.                                 *)
(***************************************************************************)
Selected == ret.op = "DefaultProposerSelection"

\* C25 as claimed: for every height, round and validator set of N validators the
\* selector returns the validator at list position (height + round) mod N.
C25_SelectsSumModN ==
    Selected =>
        ret.choice = <<ret.valSet[((ret.h + ret.r) % Len(ret.valSet)) + 1]>>

\* C26 as claimed: for every validator set of N >= 1 validators, every height and
\* every round the selector computes an index in [0, N) and returns a member of the
\* set without failing.
C26_SelectionIsTotal ==
    Selected =>
        /\ pc # "panicked"
        /\ ret.idx \in 0..(Len(ret.valSet) - 1)
        /\ \E i \in 1..Len(ret.valSet) : ret.choice = <<ret.valSet[i]>>

(***************************************************************************)
(* Properties of the retrieval cache under concurrent retrievals.          *)
(***************************************************************************)
DataChecked == ret.op = "DataCheck"

\* C27: whatever the background retrievals write between the steps of the hook, the
\* hook reads the transactions of a request only after it has seen the request
\* ready, and a request it has seen ready holds the whole batch of its data ID,
\* which is the list the hook reads.
C27_ReadsOnlyReadyCompleteRecords ==
    DataChecked =>
        /\ ret.read => (ret.sawReady /\ ret.txs = BatchOf(ret.id))
        /\ pc = "reading" =>
             (ret.sawReady /\ bdrCache[ret.id].ready
                /\ bdrCache[ret.id].txs = BatchOf(ret.id))
        /\ (pc = "returned" /\ ~ret.sawReady) => (~ret.read /\ ret.txs = <<>>)

\* C27 witness: the hook has read the three transactions of a batch after seeing
\* its request ready, while another retrieval has written part of its batch.
C27_Witness ==
    /\ DataChecked
    /\ ret.read
    /\ ret.sawReady
    /\ ret.txs = <<"a", "x", "b">>
    /\ \E id \in inflight : Len(bdrCache[id].txs) = 1

\* Wait has returned.
Waited == ret.op = "Wait" /\ pc = "stopped"

\* C28: when Wait has returned, no retrieval started through the retriever is
\* running: each has finished or been cancelled; and from then on no step changes
\* the retrieval cache.
C28_WaitIsBarrierForRetrievals ==
    /\ [](Waited => inflight = {})
    /\ [][Waited => bdrCache' = bdrCache]_vars

\* C28 witness: Wait was called while a retrieval was running and has returned; the
\* retrieval has finished and its request is ready.
C28_Witness ==
    /\ Waited
    /\ ret.running # {}
    /\ inflight = {}
    /\ \E id \in ret.running : bdrCache[id].ready

(***************************************************************************)
(* Further properties of ConsiderProposedBlocks.                           *)
(***************************************************************************)
\* The data of candidate j is absent from the cache or not ready when j is evaluated.
DataNotReadyAt(j) ==
    /\ NamesRound(ret.phs[j], curH, curR)
    /\ ParsedDataID[ret.phs[j].DataID].nTxs # 0
    /\ (AbsentAt(j) \/ PendingAt(j))

\* C29: the call returns after at most one evaluation per candidate, whether or not
\* retrievals are running; a candidate whose data is absent or not ready is left
\* without simulation, is not accepted, and the scan goes on; when no candidate is
\* accepted the call reports "not ready".
C29_ConsiderNeverWaits ==
    Considered =>
        /\ pc = "returned"
        /\ Len(ret.evals) <= Len(ret.phs)
        /\ \A j \in 1..Len(ret.evals) :
             DataNotReadyAt(j) =>
                /\ ret.evals[j].sims = <<>>
                /\ Len(ret.evals[j].retr) <= 1
                /\ ~AcceptedAt(j)
                /\ ScanContinuesAfter(j)
        /\ ret.hash = "" => ret.err = ErrProposedBlockChoiceNotReady

\* C29 witness: the call has returned "not ready" after one evaluation of each of
\* two candidates, one whose data it just asked for and one whose retrieval was
\* running before the call, and both retrievals are still running.
C29_Witness ==
    /\ Considered
    /\ Len(ret.phs) = 2
    /\ Len(ret.evals) = 2
    /\ DataNotReadyAt(1)
    /\ AbsentAt(1)
    /\ DataNotReadyAt(2)
    /\ ret.phs[2].DataID \in DOMAIN ret.cache
    /\ ret.err = ErrProposedBlockChoiceNotReady
    /\ {ret.phs[1].DataID, ret.phs[2].DataID} \subseteq inflight

\* The data ID of candidate j, whose header names the round context, does not parse.
UnparseableAt(j) ==
    /\ ret.phs[j].Height = curH
    /\ ret.phs[j].Round = curR
    /\ ~ParsedDataID[ret.phs[j].DataID].ok

\* C30: a candidate whose data ID does not parse is skipped: nothing is simulated or
\* retrieved for it, it is not accepted, the scan goes on with the next candidate,
\* and the call ends as it does without it, with a hash or "not ready", never with
\* another error.
C30_UnparseableDataIDIsSkipped ==
    Considered =>
        \A j \in 1..Len(ret.evals) :
            UnparseableAt(j) =>
                /\ ret.evals[j].sims = <<>>
                /\ ret.evals[j].retr = <<>>
                /\ ~AcceptedAt(j)
                /\ ScanContinuesAfter(j)
                /\ ret.err \in {Nil, ErrProposedBlockChoiceNotReady}
                /\ pc = "returned"

\* C30 witness: the first candidate's data ID does not parse, and the call accepts
\* the second.
C30_Witness ==
    /\ Considered
    /\ Len(ret.evals) = 2
    /\ UnparseableAt(1)
    /\ ret.err = Nil
    /\ ret.hash = ret.phs[2].Hash

\* C31: a candidate whose block annotation does not decode, or whose claimed time
\* is not RFC3339 text, is not accepted, whatever its data; the scan goes on with the
\* next candidate and the call ends with a hash or "not ready", never another error.
C31_UndecodableAnnotationIsSkipped ==
    Considered =>
        \A j \in 1..Len(ret.evals) :
            ~AnnotationDecodes(ret.phs[j]) =>
                /\ ~AcceptedAt(j)
                /\ ScanContinuesAfter(j)
                /\ ret.err \in {Nil, ErrProposedBlockChoiceNotReady}
                /\ pc = "returned"

\* C31 witness: the data of the first candidate is ready and its two transactions
\* are simulated without failure, but its annotation does not decode; the time of
\* the second is not RFC3339 text; the call reports "not ready".
C31_Witness ==
    /\ Considered
    /\ Len(ret.evals) = 2
    /\ \A j \in 1..2 : NamesRound(ret.phs[j], curH, curR)
    /\ ReadyAndValid(1)
    /\ Len(ret.evals[1].sims) = 2
    /\ ~DecodedAnn[ret.phs[1].BlockAnn].ba.ok
    /\ DecodedAnn[ret.phs[2].BlockAnn].ba.ok
    /\ ~DecodedAnn[ret.phs[2].BlockAnn].bt.ok
    /\ ret.err = ErrProposedBlockChoiceNotReady

\* What the returned call returns when its Retrieve calls succeed (ok) or fail.
ResultWhenRetrieve(ok) ==
    ConsiderLoop(ret.phs, 1, curH, curR, ret.times,
                 [cache |-> ret.cache, inflight |-> {}], ret.errTx, ok, <<>>)

\* Hash and error of a result.
Answer(res) == [hash |-> res.hash, err |-> res.err]

\* C32: the call returns the same hash and error whether its Retrieve calls succeed
\* or fail, and that is never the error of Retrieve; and whenever a candidate with
\* transactions is evaluated while its data ID is absent from the cache, Retrieve is
\* called for it, whatever earlier calls did.
C32_RetrieveFailureNotPropagated ==
    Considered =>
        /\ Answer(ResultWhenRetrieve(TRUE)) = [hash |-> ret.hash, err |-> ret.err]
        /\ Answer(ResultWhenRetrieve(FALSE)) = [hash |-> ret.hash, err |-> ret.err]
        /\ ret.err \in {Nil, ErrProposedBlockChoiceNotReady}
        /\ \A j \in 1..Len(ret.evals) :
             (NamesRound(ret.phs[j], curH, curR)
                /\ ParsedDataID[ret.phs[j].DataID].nTxs # 0 /\ AbsentAt(j)) =>
                 /\ Len(ret.evals[j].retr) = 1
                 /\ ret.evals[j].retr[1].id = ret.phs[j].DataID

\* C32 witness: a candidate is evaluated while its data ID is absent; Retrieve is
\* called for it and fails, the data ID is still absent after the call, as a later
\* call will find it, and the call accepts the next candidate.
C32_Witness ==
    /\ Considered
    /\ Len(ret.evals) = 2
    /\ ret.phs[1].DataID \notin DOMAIN ret.cache
    /\ Len(ret.evals[1].retr) = 1
    /\ ret.evals[1].retr[1].err
    /\ ret.phs[1].DataID \notin DOMAIN bdrCache
    /\ ret.err = Nil
    /\ ret.hash = ret.phs[2].Hash

(***************************************************************************)
(* Properties of the block-data identifier codec.                          *)
(***************************************************************************)
Encoded == ret.op = "DataIDCodec"

\* C33: parsing the token of a tuple returns that tuple without error, encoding the
\* parsed fields again gives the same token, and the tokens of two tuples are equal
\* exactly when the tuples are.
C33_DataIDRoundTrip ==
    Encoded =>
        /\ ret.parsed.ok
        /\ Tuple(ret.parsed.h, ret.parsed.r, ret.parsed.nTxs, ret.parsed.dataLen,
                 ret.parsed.hash) = ret.t
        /\ ret.again = ret.token
        /\ (ret.token = ret.token2) <=> (ret.t = ret.t2)

\* C33 witness: a tuple with two-digit numbers and different counts round-trips,
\* next to a different tuple with a different token.
C33_Witness ==
    /\ Encoded
    /\ ret.t = Tuple(10, 1, 1, 10, HashHex(<<"a", "b">>))
    /\ ret.parsed.ok
    /\ ret.parsed.h = 10
    /\ ret.parsed.dataLen = 10
    /\ ret.again = ret.token
    /\ ret.t2 = Tuple(10, 1, 1, 0, HashHex(<<"a", "b">>))
    /\ ret.token # ret.token2

(***************************************************************************)
(* The two-validator scenario.                                             *)
(***************************************************************************)
\* The header the engine makes of A's proposal for round 0.
HeaderOfA == CHOOSE p \in ScenarioHeaders : p.Hash = "pA"

\* EnterRound was called on round 0 of the scenario's height.
EnteredScenarioRound ==
    Entered /\ ret.rv.Height = ScenarioHeight /\ ret.rv.Round = 0

\* B's ConsiderProposedBlocks was called with A's header in that round.
BConsidersHeaderOfA ==
    /\ Considered
    /\ signerPubKey = "B"
    /\ curH = ScenarioHeight
    /\ curR = 0
    /\ ret.phs = <<HeaderOfA>>

\* C34: at height 10, round 0 with validators [A:60, B:40] the selector picks A, the
\* validator at index 0; A's call with one pending transaction builds a proposal
\* whose data ID parses to nTxs = 1 and returns nil only when the engine has it; B's
\* call builds and sends nothing. B's scan of A's header starts one retrieval and
\* reports "not ready" while the data ID is absent, and returns the header's hash
\* when the data is ready, its transaction simulates without failure and the claimed
\* time is not after the clock.
C34_TwoValidatorScenario ==
    /\ EnteredScenarioRound =>
         /\ ret.selected = <<ValSet[1]>>
         /\ ValSet[1] = [PubKey |-> "A", Power |-> 60]
         /\ signerPubKey = "B" =>
              (ret.proposal = NoCall /\ ret.provide = <<>> /\ ~ret.delivered
                 /\ ret.err = Nil /\ pc = "returned")
         /\ (signerPubKey = "A" /\ ret.snapshot = <<"a">> /\ ~ret.provideErr) =>
              /\ ret.proposal # NoCall
              /\ ret.proposal.DataID = HeaderOfA.DataID
              /\ ParseDataID(ret.proposal.DataID).ok
              /\ ParseDataID(ret.proposal.DataID).nTxs = 1
              /\ (pc = "returned" /\ ret.err = Nil) => ret.delivered
    /\ BConsidersHeaderOfA =>
         /\ HeaderOfA.DataID \notin DOMAIN ret.cache =>
              /\ ret.err = ErrProposedBlockChoiceNotReady
              /\ ret.hash = ""
              /\ Len(ret.evals[1].retr) = 1
              /\ ret.evals[1].retr[1].id = HeaderOfA.DataID
         /\ (ReadyAndValid(1) /\ ClaimedTime(HeaderOfA) <= ret.times[1]) =>
              /\ ret.err = Nil
              /\ ret.hash = "pA"
              /\ Len(ret.evals[1].sims) = 1

\* C34 witness: B, which an earlier scan of the round left waiting for the data of
\* A's header, scans the header again once the retrieval has completed, simulates
\* the transaction and returns the header's hash.
C34_Witness ==
    /\ BConsidersHeaderOfA
    /\ ret.hash = "pA"
    /\ ret.err = Nil
    /\ "pA" \in deferred
    /\ ret.cache[HeaderOfA.DataID].txs = <<"a">>
    /\ Len(ret.evals[1].sims) = 1

\* The data ID of candidate j parses with a transaction count of zero.
AnnouncesNoTxs(j) ==
    ParsedDataID[ret.phs[j].DataID].ok /\ ParsedDataID[ret.phs[j].DataID].nTxs = 0

\* C35: for a candidate whose data ID parses with no transaction, the call looks
\* nothing up in the cache, starts no retrieval and simulates nothing; it accepts
\* the candidate exactly when header and data ID name the round context and the
\* block annotation decodes to a time that is not after the clock.
C35_EmptyBatchNeedsNoData ==
    Considered =>
        \A j \in 1..Len(ret.evals) :
            AnnouncesNoTxs(j) =>
                /\ ~ret.evals[j].looked
                /\ ret.evals[j].retr = <<>>
                /\ ret.evals[j].sims = <<>>
                /\ AcceptedAt(j) <=>
                     /\ NamesRound(ret.phs[j], curH, curR)
                     /\ AnnotationDecodes(ret.phs[j])
                     /\ ClaimedTime(ret.phs[j]) <= ret.times[j]

\* C35 witness: a candidate without transactions is accepted while the cache holds
\* no record at all, and none is made.
C35_Witness ==
    /\ Considered
    /\ Len(ret.evals) = 1
    /\ AnnouncesNoTxs(1)
    /\ AcceptedAt(1)
    /\ ret.cache = EmptyCache
    /\ bdrCache = EmptyCache
    /\ inflight = {}

\* C36: a candidate that a scan of the round rejected, for a failed simulation or a
\* claimed time in the future, is evaluated like any other by the scans that
\* follow: when its data ID announces transactions and the cache holds them ready,
\* they are simulated again from the first, and when it passes every check at the
\* time of the scan its hash is returned.
C36_NoMemoryOfRejectedCandidates ==
    Considered =>
        \A j \in 1..Len(ret.evals) :
            ret.phs[j].Hash \in rejected =>
                /\ ret.evals[j].outcome # "excluded"
                /\ (NamesRound(ret.phs[j], curH, curR)
                      /\ ParsedDataID[ret.phs[j].DataID].nTxs # 0
                      /\ ret.phs[j].DataID \in DOMAIN ret.cache
                      /\ ret.cache[ret.phs[j].DataID].ready) =>
                     /\ Len(ret.evals[j].sims) >= 1
                     /\ ret.evals[j].sims[1].fn = "Simulate"
                     /\ ret.evals[j].sims[1].state = CommittedState
                /\ PassesChecks(j) => (ret.err = Nil /\ ret.hash = ret.phs[j].Hash)

\* C36 witness: a header an earlier scan of the round rejected is accepted by this
\* one, which simulated its two transactions.
C36_Witness ==
    /\ Considered
    /\ Len(ret.evals) = 1
    /\ ret.phs[1].Hash \in rejected
    /\ ret.evals[1].outcome = "accept"
    /\ Len(ret.evals[1].sims) = 2
    /\ ret.hash = ret.phs[1].Hash

\* The call built a proposal from a snapshot that holds transactions.
ProposedBatch == Entered /\ ret.proposal # NoCall /\ ret.snapshot # <<>>

\* The proposal carries the identifier that the one call of Provide returned.
ProvidedFirst ==
    /\ Len(ret.provide) = 1
    /\ ~ret.provideErr
    /\ ret.proposal.DataID
         = Provide(ret.provide[1].h, ret.provide[1].r, ret.provide[1].txs).DataID

\* C37: while the send of a proposal built from a non-empty snapshot blocks, Provide
\* has been called and the cache already holds the identifier it returned, ready
\* with the snapshot, and the engine has received nothing; the record is there
\* when the engine has received the proposal and when the send was cancelled; and
\* the step that ends the send, either way, leaves the cache as it is.
C37_ProvideMarkThenHandoff ==
    /\ [](ProposedBatch =>
            /\ ProvidedFirst
            /\ ProposedDataAvailable
            /\ pc = "sending" => ~ret.delivered
            /\ pc = "returned" => ret.outcome \in {"sent", "cancelled"})
    /\ [][(ProposedBatch /\ pc = "sending" /\ pc' = "returned")
             => bdrCache' = bdrCache]_vars

\* C37 witness: the send of a proposal of two transactions was cancelled; the engine
\* received nothing, and the record the call made in the cache, which did not hold
\* the identifier before, is still there.
C37_Witness ==
    /\ ProposedBatch
    /\ pc = "returned"
    /\ ret.outcome = "cancelled"
    /\ ~ret.delivered
    /\ ret.proposal.DataID \notin DOMAIN ret.cache
    /\ ProvidedFirst
    /\ ProposedDataAvailable

(***************************************************************************)
(* Properties of the debug endpoints.                                      *)
(***************************************************************************)
\* The call of SubmitTransaction has returned.
Submitted == pc = "returned" /\ ret.op = "SubmitTransaction"

\* The response carries an error text and the Go error is nil.
ErrorTextOnly == ~ret.resp.nil /\ ret.resp.Error # "" /\ ret.err = Nil

\* C38: a SubmitTransaction call changes the buffer only by appending the decoded
\* transaction, after ValidateTx returned no error and a result without error; on a
\* body that does not decode, and on a validation result with an error, it returns
\* a response with an error text and a nil error; on an error of ValidateTx it
\* returns a non-nil error; in those three cases AddTx is not called and the buffer
\* is as before the call. A SimulateTransaction call leaves the buffer as it was.
C38_BufferOnlyAfterValidation ==
    /\ Submitted =>
         /\ txBuf # ret.buf =>
              /\ ret.decoded
              /\ Len(ret.validated) = 1
              /\ ~ret.validated[1].err
              /\ ~ret.validated[1].resError
              /\ txBuf = Append(ret.buf, DecodeJSON(ret.req).tx)
         /\ ~DecodeJSON(ret.req).ok =>
              ErrorTextOnly /\ ret.validated = <<>> /\ ret.added = <<>> /\ txBuf = ret.buf
         /\ (Len(ret.validated) = 1 /\ ret.validated[1].err) =>
              ret.err # Nil /\ ret.added = <<>> /\ txBuf = ret.buf
         /\ (Len(ret.validated) = 1 /\ ~ret.validated[1].err /\ ret.validated[1].resError) =>
              ErrorTextOnly /\ ret.added = <<>> /\ txBuf = ret.buf
    /\ (pc = "returned" /\ ret.op = "SimulateTransaction") => txBuf = ret.buf

\* C38 witness: the buffer holds "a"; a call with the body of "x", which decodes and
\* which the validation rejects, has returned an error text and a nil error, and the
\* buffer still holds "a" alone.
C38_Witness ==
    /\ Submitted
    /\ ret.buf = <<"a">>
    /\ ret.req = <<"{", "x", "}">>
    /\ ret.decoded
    /\ Len(ret.validated) = 1
    /\ ret.validated[1].resError
    /\ ErrorTextOnly
    /\ txBuf = <<"a">>

(***************************************************************************)
(* Properties of the component's shutdown.                                 *)
(***************************************************************************)
\* A call of Stop is running or has returned.
Stopping == ret.op = "Stop"

\* The position in StopOrder of the part on which the call fn is made; 0 for cancel.
StopPos(fn) ==
    IF fn = "cancel" THEN 0
    ELSE CHOOSE k \in 1..Len(StopOrder) : StopCallOf(StopOrder[k]) = fn

\* The calls Stop has made, by name.
StopCallNames == {ret.calls[i].fn : i \in 1..Len(ret.calls)}

\* C39: the first thing a call of Stop does is to cancel the root context; the calls
\* it makes after that follow the order engine, driver, connection, host, HTTP
\* listener, HTTP server, each on a part that had been created when Stop was
\* called; Stop never panics; and when it returns it has made the call of every
\* part that had been created and returns nil.
C39_StopOrderSkipsMissingParts ==
    Stopping =>
        /\ pc # "panicked"
        /\ component.cancelled
        /\ ret.calls[1].fn = "cancel"
        /\ \A i \in 1..Len(ret.calls), j \in 1..Len(ret.calls) :
             i < j => StopPos(ret.calls[i].fn) < StopPos(ret.calls[j].fn)
        /\ \A k \in 1..Len(StopOrder) :
             StopCallOf(StopOrder[k]) \in StopCallNames => ret.before[StopOrder[k]] # "nil"
        /\ pc = "returned" =>
             /\ ret.err = Nil
             /\ \A k \in 1..Len(StopOrder) :
                  ret.before[StopOrder[k]] # "nil"
                     => StopCallOf(StopOrder[k]) \in StopCallNames

\* C39 witness: Stop has returned nil on a component with an HTTP listener whose
\* Start failed when it created the driver: after the cancel it disconnected the
\* connection, closed the host and closed the listener, and made no other call.
C39_Witness ==
    /\ Stopping
    /\ pc = "returned"
    /\ ret.before.phase = "startFailed"
    /\ ret.before.driver = "nil"
    /\ ret.before.httpLn = "up"
    /\ ret.err = Nil
    /\ Len(ret.calls) = 4
    /\ ret.calls[2].fn = "conn.Disconnect"
    /\ ret.calls[3].fn = "h.Close"
    /\ ret.calls[4].fn = "httpLn.Close"

(***************************************************************************)
(* Properties of the root store.                                           *)
(***************************************************************************)
\* A call of Close made on a store that an earlier call had closed has ended.
ClosedAgain ==
    /\ ret.op = "Close"
    /\ pc \in {"returned", "panicked"}
    /\ Len(ret.before.results) >= 1

\* C40: a call of Close on a store that was closed before calls Close neither on the
\* storage nor on the commitment, which are both nil, does not dereference a nil
\* field, leaves the fields of the store as the first call left them and, when it
\* returns, returns what the first call returned.
C40_CloseIsIdempotent ==
    ClosedAgain =>
        /\ ret.before.stateStorage = "nil"
        /\ ret.before.stateCommitment = "nil"
        /\ \A i \in 1..Len(ret.calls) :
             ret.calls[i].fn \notin {"stateStorage.Close", "stateCommitment.Close"}
        /\ ret.err # "nilDeref"
        /\ rootStore.stateStorage = ret.before.stateStorage
        /\ rootStore.stateCommitment = ret.before.stateCommitment
        /\ rootStore.lastCommitInfo = ret.before.lastCommitInfo
        /\ pc = "returned" => ret.joined = ret.before.results[1]

=============================================================================
